---- MODULE Spec2Model ----
(***************************************************************************)
(* Line-of-sight and coverage engine of Thales-Radar-Position.             *)
(*                                                                         *)
(* Numbers.  The Python code computes in floating point; the model         *)
(* computes the same expressions in exact rational arithmetic.  A rational *)
(* is a pair <<n, d>> in lowest terms with d > 0.  "No value" (Python's    *)
(* None) is the empty tuple.                                               *)
(*                                                                         *)
(* Units.  Latitudes and longitudes are whole multiples of 1e-12 degree,   *)
(* so that the denominator guard 1e-12 of z_terrain is Eps = 1 coordinate  *)
(* unit.  Elevations, heights and margins are metres.                      *)
(***************************************************************************)
EXTENDS Integers, Sequences, FiniteSets, TLC

VARIABLES
    lats,               \* latitude axis of the terrain grid (coordinate units)
    lons,               \* longitude axis of the terrain grid
    Z,                  \* elevation matrix, Z[i][j], metres
    pc,                 \* position of the running operation
    q_lat, q_lon,       \* z_terrain: the queried point (rationals)
    z_out,              \* z_terrain: the returned value (rational or None)
    radar_lat, radar_lon,       \* los_visible: observer position (rationals)
    radar_height_agl_m,         \* los_visible: observer height above ground
    target_lat, target_lon,     \* los_visible: target position (rationals)
    target_alt_m_msl,           \* los_visible: target altitude (rational)
    n_samples,                  \* los_visible: number of path subdivisions
    margin_m,                   \* los_visible: safety margin
    k,                          \* los_visible: loop index
    z_radar,                    \* los_visible: observer eye altitude
    result,                     \* los_visible: returned value
    lookups,                    \* los_visible: the terrain lookups made so
                                \* far, <<index, value>>, index 0 = observer
    ret,                        \* where los_visible returns to
    flight_level,               \* compute_coverage_map: the altitude tier
    point_progress_callback,    \* compute_coverage_map: a listener is given
    coverage_map,               \* compute_coverage_map: the output matrix
    row_i, col_j,               \* compute_coverage_map and
                                \* _create_grouped_polygons: loop indices
                                \* i, j (0-based)
    current_point,              \* compute_coverage_map: cells processed
    calls,                      \* the invocations of the listener so far,
                                \* <<current, total, percentage>>
    cret,                       \* where compute_coverage_map returns to
    flight_levels,              \* compute_all_coverage_maps: the tiers
    progress_callback,          \* compute_all_coverage_maps: a tier
                                \* callback is given
    idx,                        \* compute_all_coverage_maps: loop index
    coverage_maps,              \* compute_all_coverage_maps: the dict,
                                \* a function from tiers to matrices
    tier_calls,                 \* the invocations of the tier callback,
                                \* <<flight_level, current, total>>
    fl_arg,                     \* fl_to_m: the flight level
    fl_value,                   \* fl_to_m: the returned double
    masks,                      \* the masks given to a mask operation
    mask,                       \* the mask an operation builds or returns
    raised,                     \* the exception an operation raised, or
                                \* "none"
    visited,                    \* _create_grouped_polygons: the cells that
                                \* belong to a polygon already
    start_j, end_j, end_i,      \* _create_grouped_polygons: the extent of
                                \* the group under construction (0-based)
    can_extend,                 \* _create_grouped_polygons: the group may
                                \* grow by another row
    polygons                    \* the rectangles emitted so far,
                                \* <<lat0, lat1, lon0, lon1>>

gridVars == <<lats, lons, Z>>

queryVars == <<q_lat, q_lon, z_out>>

losArgs == <<radar_lat, radar_lon, radar_height_agl_m, target_lat, target_lon,
             target_alt_m_msl, n_samples, margin_m>>

losLocals == <<k, z_radar, result, lookups>>

covArgs == <<flight_level, point_progress_callback, cret>>

covLocals == <<coverage_map, row_i, col_j, current_point, calls>>

tierVars == <<flight_levels, progress_callback, idx, coverage_maps, tier_calls>>

convVars == <<fl_arg, fl_value>>

maskVars == <<masks, mask, raised>>

groupVars == <<visited, start_j, end_j, end_i, can_extend, polygons>>

vars == <<gridVars, pc, queryVars, losArgs, losLocals, ret, covArgs, covLocals,
          tierVars, convVars, maskVars, groupVars>>

-----------------------------------------------------------------------------
(* Bounds of the model *)

\* number of latitude samples of the grid
MaxLat == 2
\* number of longitude samples of the grid
MaxLon == 3
\* spacing of two adjacent axis samples, in coordinate units
Step == 10
\* highest terrain elevation, metres
MaxElev == 30

\* the denominator guard 1e-12 of z_terrain, in coordinate units
Eps == 1

-----------------------------------------------------------------------------
(* Exact rational arithmetic *)

None == <<>>

Abs(x) == IF x < 0 THEN -x ELSE x

Min2(a, b) == IF a <= b THEN a ELSE b

Max2(a, b) == IF a >= b THEN a ELSE b

RECURSIVE GCD(_, _)
GCD(a, b) == IF b = 0 THEN a ELSE GCD(b, a % b)

\* the rational n/d (d # 0) in lowest terms
Rat(n, d) ==
    LET g == GCD(Abs(n), Abs(d))
        s == IF d < 0 THEN -1 ELSE 1
    IN  <<s * (n \div g), s * (d \div g)>>

R(n) == <<n, 1>>

RAdd(x, y) ==
    LET g == GCD(x[2], y[2])
        fx == y[2] \div g
        fy == x[2] \div g
    IN  Rat(x[1] * fx + y[1] * fy, x[2] * fx)

RNeg(x) == <<-x[1], x[2]>>

RSub(x, y) == RAdd(x, RNeg(y))

RMul(x, y) ==
    LET g1 == GCD(Abs(x[1]), y[2])
        g2 == GCD(Abs(y[1]), x[2])
    IN  Rat((x[1] \div g1) * (y[1] \div g2), (x[2] \div g2) * (y[2] \div g1))

RDiv(x, y) == RMul(x, Rat(y[2], y[1]))

\* a/b <= c/d for b, d > 0, by comparing the integer parts and then the
\* reciprocals of the fractional parts (no cross product is formed)
RECURSIVE FracLeq(_, _, _, _)
FracLeq(a, b, c, d) ==
    LET q1 == a \div b
        q2 == c \div d
        r1 == a % b
        r2 == c % d
    IN  IF q1 # q2 THEN q1 < q2
        ELSE IF r1 = 0 THEN TRUE
        ELSE IF r2 = 0 THEN FALSE
        ELSE FracLeq(d, r2, b, r1)

RLeq(x, y) == FracLeq(x[1], x[2], y[1], y[2])

RLess(x, y) == ~RLeq(y, x)

-----------------------------------------------------------------------------
(* Arrays *)

Reverse(s) == [i \in 1..Len(s) |-> s[Len(s) + 1 - i]]

\* Z[::-1, :]
FlipRows(M) == Reverse(M)

\* Z[:, ::-1]
FlipCols(M) == [i \in 1..Len(M) |-> Reverse(M[i])]

\* numpy.searchsorted(a, v) (side "left") on an ascending array: the 0-based
\* insertion index, that is the number of elements strictly below v
SearchSorted(a, v) == Cardinality({i \in 1..Len(a) : RLess(R(a[i]), v)})

\* numpy.clip
Clip(x, lo, hi) == Min2(Max2(x, lo), hi)

-----------------------------------------------------------------------------
(* z_terrain *)

\* faulty variant: the last corner is not tested
HasNoDataThree(z00, z01, z10, z11) == Min2(Min2(z00, z01), z10) < 0

\* the four corners of the selected cell are read and tested for no-data
HasNoData(z00, z01, z10, z11) == Min2(Min2(z00, z01), Min2(z10, z11)) < 0

\* faulty variant: the longitude is not tested
InBoundsLatOnly(lat, lon, lat_min, lat_max, lon_min, lon_max) ==
    RLeq(R(lat_min), lat) /\ RLeq(lat, R(lat_max))

\* faulty variant: the boundary itself is out of bounds
InBoundsStrict(lat, lon, lat_min, lat_max, lon_min, lon_max) ==
    /\ RLess(R(lat_min), lat) /\ RLess(lat, R(lat_max))
    /\ RLess(R(lon_min), lon) /\ RLess(lon, R(lon_max))

\* the bounds test of z_terrain
InBounds(lat, lon, lat_min, lat_max, lon_min, lon_max) ==
    /\ RLeq(R(lat_min), lat) /\ RLeq(lat, R(lat_max))
    /\ RLeq(R(lon_min), lon) /\ RLeq(lon, R(lon_max))

\* faulty variant: the columns are never flipped
ReorderRowsOnly(lats_inc, lons_inc, ZZ) ==
    IF lats_inc THEN ZZ ELSE FlipRows(ZZ)

\* faulty variant: with both axes descending only the rows are flipped
ReorderLastBranch(lats_inc, lons_inc, ZZ) ==
    IF lats_inc /\ lons_inc THEN ZZ
    ELSE IF (~lats_inc) /\ lons_inc THEN FlipRows(ZZ)
    ELSE IF lats_inc /\ (~lons_inc) THEN FlipCols(ZZ)
    ELSE FlipRows(ZZ)

\* the elevation matrix re-ordered to ascending axes
Reorder(lats_inc, lons_inc, ZZ) ==
    IF lats_inc /\ lons_inc THEN ZZ
    ELSE IF (~lats_inc) /\ lons_inc THEN FlipRows(ZZ)
    ELSE IF lats_inc /\ (~lons_inc) THEN FlipCols(ZZ)
    ELSE FlipCols(FlipRows(ZZ))

\* faulty variant: the corners z01 and z10 are exchanged
BlendTransposed(t, u, z00, z01, z10, z11) ==
    LET z0 == RAdd(RMul(RSub(R(1), u), R(z00)), RMul(u, R(z10)))
        z1 == RAdd(RMul(RSub(R(1), u), R(z01)), RMul(u, R(z11)))
    IN  RAdd(RMul(RSub(R(1), t), z0), RMul(t, z1))

\* the bilinear blend of the four corners
Blend(t, u, z00, z01, z10, z11) ==
    LET z0 == RAdd(RMul(RSub(R(1), u), R(z00)), RMul(u, R(z01)))
        z1 == RAdd(RMul(RSub(R(1), u), R(z10)), RMul(u, R(z11)))
    IN  RAdd(RMul(RSub(R(1), t), z0), RMul(t, z1))

\* lines 65-84 of z_terrain, with the ascending axes, the re-ordered matrix
\* and the clipped indices i1, j1 at hand (indices 0-based as in the code,
\* sequences 1-based)
Interpolate(lat, lon, lats_s, lons_s, Z_s, i1, j1) ==
    LET i0 == i1 - 1
        j0 == j1 - 1
        lat0 == lats_s[i0 + 1]
        lat1 == lats_s[i1 + 1]
        lon0 == lons_s[j0 + 1]
        lon1 == lons_s[j1 + 1]
        z00 == Z_s[i0 + 1][j0 + 1]
        z01 == Z_s[i0 + 1][j1 + 1]
        z10 == Z_s[i1 + 1][j0 + 1]
        z11 == Z_s[i1 + 1][j1 + 1]
    IN  IF HasNoData(z00, z01, z10, z11) THEN None
        ELSE
        LET t == RDiv(RSub(lat, R(lat0)), R(lat1 - lat0 + Eps))
            u == RDiv(RSub(lon, R(lon0)), R(lon1 - lon0 + Eps))
        IN  Blend(t, u, z00, z01, z10, z11)

\* lines 61-64 of z_terrain: the cell is located on the ascending axes
Locate(lat, lon, lats_s, lons_s, Z_s) ==
    Interpolate(lat, lon, lats_s, lons_s, Z_s,
                Clip(SearchSorted(lats_s, lat), 1, Len(lats_s) - 1),
                Clip(SearchSorted(lons_s, lon), 1, Len(lons_s) - 1))

\* z_terrain(lat, lon, lats, lons, Z)
ZTerrain(lat, lon, la, lo, ZZ) ==
    LET lats_inc == la[1] < la[Len(la)]
        lons_inc == lo[1] < lo[Len(lo)]
        lat_min == IF lats_inc THEN la[1] ELSE la[Len(la)]
        lat_max == IF lats_inc THEN la[Len(la)] ELSE la[1]
        lon_min == IF lons_inc THEN lo[1] ELSE lo[Len(lo)]
        lon_max == IF lons_inc THEN lo[Len(lo)] ELSE lo[1]
    IN  IF ~InBounds(lat, lon, lat_min, lat_max, lon_min, lon_max) THEN None
        ELSE Locate(lat, lon,
                    IF lats_inc THEN la ELSE Reverse(la),
                    IF lons_inc THEN lo ELSE Reverse(lo),
                    Reorder(lats_inc, lons_inc, ZZ))

\* z_terrain raises IndexError: Z has fewer rows or columns than the axes
\* have samples, the point is in bounds and a corner of the located cell is
\* beyond the last row or column of Z
ZTerrainRaises(lat, lon, la, lo, ZZ) ==
    /\ Len(ZZ) < Len(la) \/ Len(ZZ[1]) < Len(lo)
    /\ LET lats_inc == la[1] < la[Len(la)]
           lons_inc == lo[1] < lo[Len(lo)]
           lat_min == IF lats_inc THEN la[1] ELSE la[Len(la)]
           lat_max == IF lats_inc THEN la[Len(la)] ELSE la[1]
           lon_min == IF lons_inc THEN lo[1] ELSE lo[Len(lo)]
           lon_max == IF lons_inc THEN lo[Len(lo)] ELSE lo[1]
           lats_s == IF lats_inc THEN la ELSE Reverse(la)
           lons_s == IF lons_inc THEN lo ELSE Reverse(lo)
       IN  /\ InBounds(lat, lon, lat_min, lat_max, lon_min, lon_max)
           /\ \/ Clip(SearchSorted(lats_s, lat), 1, Len(lats_s) - 1) + 1
                    > Len(ZZ)
              \/ Clip(SearchSorted(lons_s, lon), 1, Len(lons_s) - 1) + 1
                    > Len(ZZ[1])

-----------------------------------------------------------------------------
(* Terrain grids and query points *)

\* an axis of n samples, Step apart, stored ascending or descending
Axis(n, inc) ==
    IF inc THEN [i \in 1..n |-> (i - 1) * Step]
    ELSE [i \in 1..n |-> (n - i) * Step]

\* elevations: no-data, sea level, half height, full height
Elevs == {-1, 0, MaxElev \div 2, MaxElev}

\* sea-level terrain in which the four corners of one cell take any elevation
OneCellGrids(n, m) ==
    { [i \in 1..n |-> [j \in 1..m |->
          IF i \in {ci, ci + 1} /\ j \in {cj, cj + 1}
          THEN c[<<i - ci, j - cj>>] ELSE 0]] :
      ci \in 1..(n - 1), cj \in 1..(m - 1),
      c \in [(0..1) \X (0..1) -> Elevs] }

\* sea-level terrain with at most one vertex that is a peak or a no-data hole
OneVertexGrids(n, m) ==
    { [i \in 1..n |-> [j \in 1..m |-> IF <<i, j>> = v THEN e ELSE 0]] :
      v \in (1..n) \X (1..m), e \in {-1, 0, MaxElev} }

\* query coordinates: every half step from half a step below the axis to
\* half a step above it
Coords(n) == {Rat(h * Step, 2) : h \in -1..(2 * (n - 1) + 1)}

\* the variables of los_visible while no call is running
LosIdle ==
    /\ radar_lat = R(0) /\ radar_lon = R(0) /\ radar_height_agl_m = 0
    /\ target_lat = R(0) /\ target_lon = R(0) /\ target_alt_m_msl = R(0)
    /\ n_samples = 0 /\ margin_m = 0
    /\ k = 0 /\ z_radar = None /\ result = FALSE /\ lookups = <<>>
    /\ ret = "done"

\* the variables of compute_coverage_map while no call is running
CovIdle ==
    /\ flight_level = 0 /\ point_progress_callback = FALSE
    /\ coverage_map = <<>> /\ row_i = 0 /\ col_j = 0 /\ current_point = 0
    /\ calls = <<>>
    /\ cret = "cov_done"

\* the variables of compute_all_coverage_maps while no call is running
TierIdle ==
    /\ flight_levels = <<>> /\ progress_callback = FALSE
    /\ idx = 0 /\ coverage_maps = <<>> /\ tier_calls = <<>>

\* the variables of fl_to_m while no call is running
ConvIdle == fl_arg = 0 /\ fl_value = None

\* the variables of the mask operations while no call is running
MaskIdle == masks = <<>> /\ mask = None /\ raised = "none"

\* the variables of _create_grouped_polygons while no call is running
GroupIdle ==
    /\ visited = <<>> /\ start_j = 0 /\ end_j = 0 /\ end_i = 0
    /\ can_extend = FALSE /\ polygons = <<>>

\* the variables of the operations a specification does not run
OthersIdle == TierIdle /\ ConvIdle /\ MaskIdle /\ GroupIdle

-----------------------------------------------------------------------------
(* Specification of the point elevation query *)

InitTerrain ==
    /\ \E a \in BOOLEAN : lats = Axis(MaxLat, a)
    /\ \E b \in BOOLEAN : lons = Axis(MaxLon, b)
    /\ Z \in OneCellGrids(MaxLat, MaxLon)
    /\ pc = "idle"
    /\ q_lat = R(0)
    /\ q_lon = R(0)
    /\ z_out = None
    /\ LosIdle
    /\ CovIdle
    /\ OthersIdle

\* one call of z_terrain on the grid
Query ==
    /\ pc = "idle"
    /\ \E lat \in Coords(MaxLat), lon \in Coords(MaxLon) :
        /\ q_lat' = lat
        /\ q_lon' = lon
        /\ IF ZTerrainRaises(lat, lon, lats, lons, Z)
           THEN z_out' = None /\ raised' = "IndexError"
           ELSE z_out' = ZTerrain(lat, lon, lats, lons, Z) /\ raised' = "none"
    /\ pc' = "queried"
    /\ UNCHANGED <<gridVars, groupVars, tierVars, convVars, masks, mask, losArgs,
                   losLocals, ret, covArgs, covLocals>>

NextTerrain == Query

SpecTerrain == InitTerrain /\ [][NextTerrain]_vars

-----------------------------------------------------------------------------
(* z_ligne, fl_to_m *)

\* faulty variant: the line falls where it should rise
ZLigneInverted(s, z_radar_m, z_target_m) ==
    RSub(z_radar_m, RMul(s, RSub(z_target_m, z_radar_m)))

\* z_ligne(s, z_radar_m, z_target_m)
ZLigne(s, z_radar_m, z_target_m) ==
    RAdd(z_radar_m, RMul(s, RSub(z_target_m, z_radar_m)))

\* fl_to_m(FL) = FL * 100.0 * 0.3048
FlToM(FL) == RMul(RMul(R(FL), R(100)), Rat(3048, 10000))

-----------------------------------------------------------------------------
(* los_visible *)

\* faulty variant: the fractions start at the observer
FractionFromZero(kk, n) == Rat(kk - 1, n)

\* the path fraction of sample k
Fraction(kk, n) == Rat(kk, n)

\* the position of the sample at fraction s between radar and target
Along(s, from, to) == RAdd(from, RMul(s, RSub(to, from)))

\* faulty variant: terrain exactly on the line does not block
BlockedStrict(z_ground, margin, z_line) ==
    RLess(z_line, RAdd(z_ground, R(margin)))

\* faulty variant: the comparison is reversed
BlockedReversed(z_ground, margin, z_line) ==
    RLeq(RAdd(z_ground, R(margin)), z_line)

\* the blockage test at one sample
Blocked(z_ground, margin, z_line) == RLeq(z_line, RAdd(z_ground, R(margin)))

\* faulty variant: range(1, n_samples - 1)
InRangeShort(kk, n) == 1 <= kk /\ kk < n - 1

\* faulty variant: range(1, n_samples + 1)
InRangeInclusive(kk, n) == 1 <= kk /\ kk <= n

\* range(1, n_samples) has an element k
InRange(kk, n) == 1 <= kk /\ kk < n

\* faulty variant: unknown terrain counts as visible
NoDataOpen == TRUE

\* the value returned when a terrain lookup gives no value
NoDataResult == FALSE

\* los_visible returns v to its caller
Return(v) ==
    /\ result' = v
    /\ pc' = ret

\* lines 115-118: the observer's ground elevation
LosObserver ==
    /\ pc = "los_start"
    /\ \E z_ground_r \in {ZTerrain(radar_lat, radar_lon, lats, lons, Z)} :
           /\ lookups' = <<<<0, z_ground_r>>>>
           /\ IF z_ground_r = None
              THEN /\ Return(NoDataResult)
                   /\ UNCHANGED <<k, z_radar>>
              ELSE /\ z_radar' = RAdd(z_ground_r, R(radar_height_agl_m))
                   /\ k' = 1
                   /\ pc' = "los_loop"
                   /\ UNCHANGED result
    /\ UNCHANGED <<gridVars, groupVars, tierVars, convVars, maskVars, queryVars, losArgs, ret, covArgs, covLocals>>

\* faulty variant: a sample that blocks or has no elevation sets the result
\* and the loop goes on
LosSampleContinues ==
    /\ pc = "los_loop"
    /\ InRange(k, n_samples)
    /\ \E s \in {Fraction(k, n_samples)} :
       \E lat \in {Along(s, radar_lat, target_lat)} :
       \E lon \in {Along(s, radar_lon, target_lon)} :
       \E z_ground \in {ZTerrain(lat, lon, lats, lons, Z)} :
           /\ lookups' = Append(lookups, <<k, z_ground>>)
           /\ IF z_ground = None
              THEN result' = NoDataResult
              ELSE IF Blocked(z_ground, margin_m,
                              ZLigne(s, z_radar, target_alt_m_msl))
              THEN result' = FALSE
              ELSE UNCHANGED result
           /\ k' = k + 1
    /\ UNCHANGED <<gridVars, groupVars, tierVars, convVars, maskVars, queryVars, losArgs,
                   z_radar, ret, covArgs, covLocals, pc>>

\* lines 120-133: one iteration of the loop over the interior samples
LosSample ==
    /\ pc = "los_loop"
    /\ InRange(k, n_samples)
    /\ \E s \in {Fraction(k, n_samples)} :
       \E lat \in {Along(s, radar_lat, target_lat)} :
       \E lon \in {Along(s, radar_lon, target_lon)} :
       \E z_ground \in {ZTerrain(lat, lon, lats, lons, Z)} :
           /\ lookups' = Append(lookups, <<k, z_ground>>)
           /\ IF z_ground = None
              THEN Return(NoDataResult) /\ UNCHANGED k
              ELSE IF Blocked(z_ground, margin_m,
                              ZLigne(s, z_radar, target_alt_m_msl))
              THEN Return(FALSE) /\ UNCHANGED k
              ELSE k' = k + 1 /\ UNCHANGED <<pc, result>>
    /\ UNCHANGED <<gridVars, groupVars, tierVars, convVars, maskVars, queryVars, losArgs, z_radar, ret, covArgs,
                   covLocals>>

\* line 135: the loop is exhausted
LosReturn ==
    /\ pc = "los_loop"
    /\ ~InRange(k, n_samples)
    /\ Return(TRUE)
    /\ UNCHANGED <<gridVars, groupVars, tierVars, convVars, maskVars, queryVars, losArgs, k, z_radar, lookups, ret,
                   covArgs, covLocals>>

-----------------------------------------------------------------------------
(* Specification of one line-of-sight evaluation *)

\* highest number of path subdivisions
MaxSamples == 4
\* observer height above ground, metres
MaxAgl == 20
\* safety margin, metres
MaxMargin == 5
\* highest flight level of a target
MaxFL == 1

\* a point outside the grid
Outside == <<R(-Step), R(0)>>

\* observer positions: the vertices of the first stored row, and Outside
RadarSites == {<<R(lats[1]), R(lons[j])>> : j \in 1..Len(lons)} \cup {Outside}

\* target positions: all grid vertices, and Outside
TargetSites ==
    {<<R(lats[i]), R(lons[j])>> : i \in 1..Len(lats), j \in 1..Len(lons)}
    \cup {Outside}

\* the latitudes are stored ascending and the longitudes descending
InitLOS ==
    /\ lats = Axis(MaxLat, TRUE)
    /\ lons = Axis(MaxLon, FALSE)
    /\ Z \in OneVertexGrids(MaxLat, MaxLon)
    /\ q_lat = R(0) /\ q_lon = R(0) /\ z_out = None
    /\ \E o \in RadarSites, g \in TargetSites :
        /\ radar_lat = o[1] /\ radar_lon = o[2]
        /\ target_lat = g[1] /\ target_lon = g[2]
    /\ radar_height_agl_m \in {0, MaxAgl}
    /\ target_alt_m_msl \in {FlToM(0), FlToM(MaxFL)}
    /\ n_samples \in 0..MaxSamples
    /\ margin_m \in {0, MaxMargin}
    /\ k = 0 /\ z_radar = None /\ result = FALSE /\ lookups = <<>>
    /\ ret = "done"
    /\ pc = "los_start"
    /\ CovIdle
    /\ OthersIdle

NextLOS == LosObserver \/ LosSample \/ LosReturn

SpecLOS == InitLOS /\ [][NextLOS]_vars

-----------------------------------------------------------------------------
(* compute_coverage_map *)

\* np.zeros((len(lats), len(lons)), dtype=bool)
Zeros(n, m) == [a \in 1..n |-> [b \in 1..m |-> FALSE]]

\* faulty variant: the column index is not used
SetCellFirstColumn(M, a, b, v) == [M EXCEPT ![a + 1][1] = v]

\* faulty variant: a cell that is reported to the listener is not stored
SetCellUnlessListening(M, a, b, v) ==
    IF point_progress_callback THEN M ELSE [M EXCEPT ![a + 1][b + 1] = v]

\* faulty variant: a cell next to a visible cell of its row is stored visible
SetCellSticky(M, a, b, v) ==
    [M EXCEPT ![a + 1][b + 1] = v \/ (b > 0 /\ M[a + 1][b])]

\* coverage_map[i, j] = v, the indices 0-based
SetCell(M, a, b, v) == [M EXCEPT ![a + 1][b + 1] = v]

\* total_points
TotalPoints == Len(lats) * Len(lons)

\* faulty variant: total_points // 100
ProgressIntervalHundredth == Max2(1, TotalPoints \div 100)

\* progress_interval
ProgressInterval == Max2(1, TotalPoints \div 50)

\* lines 61-72: altitude conversion and initialisation
CovStart ==
    /\ pc = "cov_start"
    /\ target_alt_m_msl' = FlToM(flight_level)
    /\ coverage_map' = Zeros(Len(lats), Len(lons))
    /\ current_point' = 0
    /\ row_i' = 0
    /\ col_j' = 0
    /\ pc' = "cov_loop"
    /\ UNCHANGED <<gridVars, groupVars, tierVars, convVars, maskVars, queryVars, radar_lat, radar_lon,
                   radar_height_agl_m, target_lat, target_lon, n_samples,
                   margin_m, losLocals, ret, covArgs, calls>>

\* lines 75-86: the next cell is the target of a call of los_visible
CovCall ==
    /\ pc = "cov_loop"
    /\ row_i < Len(lats)
    /\ target_lat' = R(lats[row_i + 1])
    /\ target_lon' = R(lons[col_j + 1])
    /\ k' = 0 /\ z_radar' = None /\ lookups' = <<>>
    /\ ret' = "cov_write"
    /\ pc' = "los_start"
    /\ UNCHANGED <<gridVars, groupVars, tierVars, convVars, maskVars, queryVars, radar_lat, radar_lon,
                   radar_height_agl_m, target_alt_m_msl, n_samples, margin_m,
                   result, covArgs, covLocals>>

\* faulty variant: the listener is told the count before the increment
CovWriteStaleCount ==
    /\ pc = "cov_write"
    /\ coverage_map' = SetCell(coverage_map, row_i, col_j, result)
    /\ current_point' = current_point + 1
    /\ calls' =
        IF /\ point_progress_callback
           /\ \/ (current_point + 1) % ProgressInterval = 0
              \/ current_point + 1 = TotalPoints
        THEN Append(calls, <<current_point, TotalPoints,
                             RMul(Rat(current_point, TotalPoints), R(100))>>)
        ELSE calls
    /\ IF col_j + 1 < Len(lons)
       THEN col_j' = col_j + 1 /\ UNCHANGED row_i
       ELSE col_j' = 0 /\ row_i' = row_i + 1
    /\ pc' = "cov_loop"
    /\ UNCHANGED <<gridVars, groupVars, tierVars, convVars, maskVars, queryVars, losArgs,
                   losLocals, ret, covArgs>>

\* lines 88-94: the result is stored, the listener is told, the loop advances
CovWrite ==
    /\ pc = "cov_write"
    /\ coverage_map' = SetCell(coverage_map, row_i, col_j, result)
    /\ current_point' = current_point + 1
    /\ calls' =
        IF /\ point_progress_callback
           /\ \/ (current_point + 1) % ProgressInterval = 0
              \/ current_point + 1 = TotalPoints
        THEN Append(calls, <<current_point + 1, TotalPoints,
                             RMul(Rat(current_point + 1, TotalPoints), R(100))>>)
        ELSE calls
    /\ IF col_j + 1 < Len(lons)
       THEN col_j' = col_j + 1 /\ UNCHANGED row_i
       ELSE col_j' = 0 /\ row_i' = row_i + 1
    /\ pc' = "cov_loop"
    /\ UNCHANGED <<gridVars, groupVars, tierVars, convVars, maskVars, queryVars, losArgs, losLocals, ret, covArgs>>

\* line 96: every row is done
CovReturn ==
    /\ pc = "cov_loop"
    /\ row_i >= Len(lats)
    /\ pc' = cret
    /\ UNCHANGED <<gridVars, groupVars, tierVars, convVars, maskVars, queryVars, losArgs, losLocals, ret, covArgs,
                   covLocals>>

-----------------------------------------------------------------------------
(* Specification of one coverage map *)

\* the latitudes are stored ascending and the longitudes descending
InitCov ==
    /\ lats = Axis(MaxLat, TRUE)
    /\ lons = Axis(MaxLon, FALSE)
    /\ Z \in OneVertexGrids(MaxLat, MaxLon)
    /\ q_lat = R(0) /\ q_lon = R(0) /\ z_out = None
    /\ \E o \in RadarSites : radar_lat = o[1] /\ radar_lon = o[2]
    /\ radar_height_agl_m = MaxAgl
    /\ flight_level \in {0, MaxFL}
    /\ n_samples \in {2, MaxSamples}
    /\ margin_m \in {0, MaxMargin}
    /\ point_progress_callback \in BOOLEAN
    /\ target_lat = R(0) /\ target_lon = R(0) /\ target_alt_m_msl = R(0)
    /\ k = 0 /\ z_radar = None /\ result = FALSE /\ lookups = <<>>
    /\ ret = "done"
    /\ coverage_map = <<>> /\ row_i = 0 /\ col_j = 0 /\ current_point = 0
    /\ calls = <<>>
    /\ cret = "cov_done"
    /\ OthersIdle
    /\ pc = "cov_start"

NextCov ==
    \/ CovStart \/ CovCall \/ CovWrite \/ CovReturn
    \/ LosObserver \/ LosSample \/ LosReturn

SpecCov == InitCov /\ [][NextCov]_vars

-----------------------------------------------------------------------------
(* Specification of the end-to-end scenario: a 5 x 5 grid at sea level with
   one obstructed vertex halfway between the observer and the target *)

\* the default of n_samples
DefaultSamples == 400

\* pairs <<observer, target>> of vertex indices whose midpoint is a vertex:
\* the observer in the first stored row, the target anywhere else
ScenarioPairs ==
    {p \in ({1} \X (1..5)) \X ((1..5) \X (1..5)) :
        /\ p[1] # p[2]
        /\ (p[1][1] + p[2][1]) % 2 = 0
        /\ (p[1][2] + p[2][2]) % 2 = 0}

InitScenario ==
    /\ \E a \in BOOLEAN : lats = Axis(5, a) /\ lons = Axis(5, ~a)
    /\ \E p \in ScenarioPairs, h \in {0, 1000} :
        /\ radar_lat = R(lats[p[1][1]]) /\ radar_lon = R(lons[p[1][2]])
        /\ target_lat = R(lats[p[2][1]]) /\ target_lon = R(lons[p[2][2]])
        /\ Z = [i \in 1..5 |-> [j \in 1..5 |->
                  IF /\ 2 * i = p[1][1] + p[2][1]
                     /\ 2 * j = p[1][2] + p[2][2]
                  THEN h ELSE 0]]
    /\ radar_height_agl_m = 10
    /\ target_alt_m_msl = FlToM(5)
    /\ n_samples = DefaultSamples
    /\ margin_m = 0
    /\ q_lat = R(0) /\ q_lon = R(0) /\ z_out = None
    /\ k = 0 /\ z_radar = None /\ result = FALSE /\ lookups = <<>>
    /\ ret = "done"
    /\ pc = "los_start"
    /\ CovIdle
    /\ OthersIdle

SpecScenario == InitScenario /\ [][NextLOS]_vars

-----------------------------------------------------------------------------
(* The grid as the claims describe it, read from the stored arrays alone *)

AxisMin(a) == CHOOSE x \in {a[i] : i \in 1..Len(a)} :
                  \A y \in {a[i] : i \in 1..Len(a)} : x <= y

AxisMax(a) == CHOOSE x \in {a[i] : i \in 1..Len(a)} :
                  \A y \in {a[i] : i \in 1..Len(a)} : x >= y

\* v lies in the closed interval the axis spans
OnAxis(a, v) == RLeq(R(AxisMin(a)), v) /\ RLeq(v, R(AxisMax(a)))

\* the stored index i such that samples i and i+1 bracket v: the lower one
\* strictly below v, or equal to v when v is the least value of the axis
Bracket(a, v) ==
    CHOOSE i \in 1..(Len(a) - 1) :
        LET lo == Min2(a[i], a[i + 1])
            hi == Max2(a[i], a[i + 1])
        IN  /\ RLeq(v, R(hi))
            /\ \/ RLess(R(lo), v)
               \/ v = R(lo) /\ lo = AxisMin(a)

\* the stored positions of the four corners of the cell enclosing (lat, lon)
CellCorners(lat, lon) ==
    LET i == Bracket(lats, lat)
        j == Bracket(lons, lon)
    IN  {<<i, j>>, <<i, j + 1>>, <<i + 1, j>>, <<i + 1, j + 1>>}

QueryInBounds == OnAxis(lats, q_lat) /\ OnAxis(lons, q_lon)

\* C5: a query with latitude or longitude strictly outside the rectangle
\* spanned by the extreme axis values returns no value, for ascending and for
\* descending axes.
Thm_C5_OutOfBounds ==
    (pc = "queried" /\ ~QueryInBounds) => z_out = None

Wit_C5_OutOfBounds ==
    /\ pc = "queried"
    /\ lats[1] > lats[Len(lats)]
    /\ OnAxis(lats, q_lat)
    /\ RLess(R(AxisMax(lons)), q_lon)
    /\ \A i \in 1..Len(lats), j \in 1..Len(lons) : Z[i][j] >= 0
    /\ z_out = None

\* C6: a query on the boundary of the grid rectangle (extreme latitude or
\* extreme longitude, the four corners included) returns a value whenever the
\* four corner elevations of its enclosing cell are not no-data.
Thm_C6_BoundaryInclusive ==
    ( /\ pc = "queried"
      /\ QueryInBounds
      /\ \/ q_lat \in {R(AxisMin(lats)), R(AxisMax(lats))}
         \/ q_lon \in {R(AxisMin(lons)), R(AxisMax(lons))}
      /\ \A c \in CellCorners(q_lat, q_lon) : Z[c[1]][c[2]] >= 0 )
    => z_out # None

Wit_C6_BoundaryInclusive ==
    /\ pc = "queried"
    /\ q_lat = R(AxisMax(lats))
    /\ q_lon = R(AxisMax(lons))
    /\ lons[1] > lons[Len(lons)]
    /\ \A c \in CellCorners(q_lat, q_lon) : Z[c[1]][c[2]] >= 0
    /\ z_out # None

\* C7: an in-bounds query returns no value as soon as one of the four corner
\* elevations of its enclosing cell is negative.
Thm_C7_NoDataPropagation ==
    ( /\ pc = "queried"
      /\ QueryInBounds
      /\ \E c \in CellCorners(q_lat, q_lon) : Z[c[1]][c[2]] < 0 )
    => z_out = None

\* exactly one corner is no-data, and the query is strictly inside the cell
Wit_C7_NoDataPropagation ==
    /\ pc = "queried"
    /\ QueryInBounds
    /\ \A i \in 1..Len(lats) : q_lat # R(lats[i])
    /\ \A j \in 1..Len(lons) : q_lon # R(lons[j])
    /\ Cardinality({c \in CellCorners(q_lat, q_lon) : Z[c[1]][c[2]] < 0}) = 1
    /\ z_out = None

\* the query is the grid vertex (i, j)
QueryIsVertex(i, j) == q_lat = R(lats[i]) /\ q_lon = R(lons[j])

\* the largest difference between elevation v and a corner of the cell
Spread(v) ==
    LET ds == {Abs(Z[c[1]][c[2]] - v) : c \in CellCorners(q_lat, q_lon)}
    IN  CHOOSE d \in ds : \A e \in ds : d >= e

\* the returned value is a number within the tolerance the guard Eps causes:
\* |z_out - v| * (dlat + Eps) * (dlon + Eps) <= Eps * (dlat + dlon + Eps) * spread
WithinEps(v) ==
    LET i == Bracket(lats, q_lat)
        j == Bracket(lons, q_lon)
        dlat == Abs(lats[i + 1] - lats[i])
        dlon == Abs(lons[j + 1] - lons[j])
        err == RSub(z_out, R(v))
        tol == Rat(Eps * (dlat + dlon + Eps) * Spread(v),
                   (dlat + Eps) * (dlon + Eps))
    IN  RLeq(err, tol) /\ RLeq(RNeg(tol), err)

\* C8 as stated: at every vertex whose own elevation is not no-data the
\* query returns that elevation within the tolerance.
Orig_C8_VertexExact ==
    pc = "queried" =>
        \A i \in 1..Len(lats), j \in 1..Len(lons) :
            (QueryIsVertex(i, j) /\ Z[i][j] >= 0) =>
                (z_out # None /\ WithinEps(Z[i][j]))

\* C8 amended: at every vertex whose enclosing cell has no no-data corner
\* the query returns the vertex's elevation within the tolerance, for
\* ascending and for descending axes.
Thm_C8_VertexExact ==
    pc = "queried" =>
        \A i \in 1..Len(lats), j \in 1..Len(lons) :
            ( /\ QueryIsVertex(i, j)
              /\ \A c \in CellCorners(q_lat, q_lon) : Z[c[1]][c[2]] >= 0 )
            => (z_out # None /\ WithinEps(Z[i][j]))

\* a vertex that is not the least corner of its cell, on a descending
\* latitude axis, whose elevation differs from the other three corners
Wit_C8_VertexExact ==
    /\ pc = "queried"
    /\ lats[1] > lats[Len(lats)]
    /\ \E i \in 1..Len(lats), j \in 1..Len(lons) :
        /\ QueryIsVertex(i, j)
        /\ lats[i] # AxisMin(lats) /\ lons[j] # AxisMin(lons)
        /\ Z[i][j] = MaxElev
        /\ \A c \in CellCorners(q_lat, q_lon) \ {<<i, j>>} : Z[c[1]][c[2]] = 0
    /\ z_out # None
    /\ WithinEps(MaxElev)

\* the elevation matrix flipped along both dimensions
Flipped(M) ==
    [i \in 1..Len(M) |-> [j \in 1..Len(M[i]) |->
        M[Len(M) + 1 - i][Len(M[i]) + 1 - j]]]

\* C9: the query returns the same (value or no value) on the grid with both
\* axes reversed and the elevation matrix flipped accordingly.
Thm_C9_ReversalInvariance ==
    pc = "queried" =>
        z_out = ZTerrain(q_lat, q_lon, Reverse(lats), Reverse(lons), Flipped(Z))

Wit_C9_ReversalInvariance ==
    /\ pc = "queried"
    /\ lats[1] < lats[Len(lats)] /\ lons[1] < lons[Len(lons)]
    /\ QueryInBounds
    /\ \A i \in 1..Len(lats) : q_lat # R(lats[i])
    /\ \A j \in 1..Len(lons) : q_lon # R(lons[j])
    /\ z_out # None
    /\ Cardinality({Z[c[1]][c[2]] : c \in CellCorners(q_lat, q_lon)}) >= 3

-----------------------------------------------------------------------------
(* Claims about los_visible *)

\* elevation_at on the path to the target at (tlat, tlon): the ground at
\* path fraction s
GroundTo(tlat, tlon, s) ==
    ZTerrain(RAdd(radar_lat, RMul(s, RSub(tlat, radar_lat))),
             RAdd(radar_lon, RMul(s, RSub(tlon, radar_lon))),
             lats, lons, Z)

\* the observer's eye altitude: ground elevation plus height above ground
Eye == RAdd(GroundTo(radar_lat, radar_lon, R(0)), R(radar_height_agl_m))

\* the altitude at path fraction s of the straight line from eye to talt
Line(eye, talt, s) == RAdd(eye, RMul(s, RSub(talt, eye)))

\* ground (a number or no value) is known and clear of the line altitude
\* by the margin
ClearOf(ground, line) ==
    /\ ground # None
    /\ RLess(RAdd(ground, R(margin_m)), line)

\* every interior sample of the path to (tlat, tlon, talt) is clear
AllClear(eye, tlat, tlon, talt) ==
    \A kk \in 1..(n_samples - 1) :
        ClearOf(GroundTo(tlat, tlon, Rat(kk, n_samples)),
                Line(eye, talt, Rat(kk, n_samples)))

\* the visibility predicate of the specification, for a target at
\* (tlat, tlon) and altitude talt
VisibleTo(tlat, tlon, talt) ==
    /\ GroundTo(radar_lat, radar_lon, R(0)) # None
    /\ AllClear(Eye, tlat, tlon, talt)

GroundAt(s) == GroundTo(target_lat, target_lon, s)

Visible == VisibleTo(target_lat, target_lon, target_alt_m_msl)

\* C1: los_visible returns true exactly when the observer's ground is known
\* and every interior sample k/sample_count, k in 1..sample_count-1, is known
\* and has ground + margin < eye + s * (target altitude - eye).
Thm_C1_VisibleIff ==
    pc = "done" => (result = Visible)

\* a visible path with at least two interior samples over non-flat terrain
Wit_C1_VisibleIff ==
    /\ pc = "done"
    /\ result = TRUE
    /\ n_samples >= 3
    /\ radar_lon # target_lon
    /\ \E i \in 1..Len(lats), j \in 1..Len(lons) : Z[i][j] = MaxElev
    /\ \E kk \in 1..(n_samples - 1) : GroundAt(Rat(kk, n_samples)) # R(0)

\* C2: the result is a boolean, and it is false whenever a terrain lookup
\* that was made (observer or path sample) returned no value.
Thm_C2_FailClosed ==
    pc = "done" =>
        /\ result \in BOOLEAN
        /\ (\E n \in 1..Len(lookups) : lookups[n][2] = None) => result = FALSE

\* the observer and the first sample are known, a later sample is not
Wit_C2_FailClosed ==
    /\ pc = "done"
    /\ Len(lookups) >= 3
    /\ lookups[Len(lookups)][2] = None
    /\ result = FALSE

\* the ground at the midpoint of the path is known and strictly exceeds
\* the line from eye
AboveLine(eye, ground) ==
    /\ ground # None
    /\ RLess(Line(eye, target_alt_m_msl, Rat(1, 2)), ground)

MidpointBlocked ==
    /\ GroundAt(R(0)) # None
    /\ AboveLine(Eye, GroundAt(Rat(1, 2)))

\* C3 as stated: for every sample_count >= 2, ground above the line at the
\* midpoint gives false, and terrain below the line by more than the margin
\* at all interior samples gives true.
Orig_C3_MidpointBlocks ==
    (pc = "done" /\ n_samples >= 2) =>
        /\ result = TRUE => ~MidpointBlocked
        /\ result = FALSE => ~Visible

\* C3 amended: the first half holds for every even sample_count >= 2, for
\* which the midpoint is the sample k = sample_count / 2.
Thm_C3_MidpointBlocks ==
    (pc = "done" /\ n_samples >= 2) =>
        /\ (result = TRUE /\ n_samples % 2 = 0) => ~MidpointBlocked
        /\ result = FALSE => ~Visible

\* the midpoint is above the line, the sample before it is clear, and the
\* midpoint sample is the one that blocks
Wit_C3_MidpointBlocks ==
    /\ pc = "done"
    /\ n_samples >= 4 /\ n_samples % 2 = 0
    /\ MidpointBlocked
    /\ Len(lookups) = 1 + n_samples \div 2
    /\ result = FALSE

\* the vertex halfway between the observer and the target
MidVertex ==
    CHOOSE v \in (1..Len(lats)) \X (1..Len(lons)) :
        /\ R(2 * lats[v[1]]) = RAdd(radar_lat, target_lat)
        /\ R(2 * lons[v[2]]) = RAdd(radar_lon, target_lon)

\* C4: in the scenario (observer 10 m above sea-level ground, target at
\* flight level 5 = 152.4 m, margin 0, 400 samples) the result is false when
\* the midpoint vertex is 1000 m high and true when all terrain is at 0.
Thm_C4_Scenario ==
    pc = "done" =>
        /\ target_alt_m_msl = Rat(1524, 10)
        /\ Z[MidVertex[1]][MidVertex[2]] = 1000 => result = FALSE
        /\ Z[MidVertex[1]][MidVertex[2]] = 0 => result = TRUE

\* the unobstructed run evaluated all 399 interior samples
Wit_C4_Scenario ==
    /\ pc = "done"
    /\ Z[MidVertex[1]][MidVertex[2]] = 0
    /\ Len(lookups) = 400
    /\ result = TRUE

\* the obstructed run
Wit_C4_Obstructed ==
    /\ pc = "done"
    /\ Z[MidVertex[1]][MidVertex[2]] = 1000
    /\ result = FALSE

-----------------------------------------------------------------------------
(* Claims about compute_coverage_map *)

\* C10: the returned matrix has the shape (len(latitudes), len(longitudes))
\* and its entry [i][j] is the visibility of the target (latitudes[i],
\* longitudes[j]) at altitude flight_level * 100 * 0.3048 m from the shared
\* observer, with the same grid, sample count and margin.
Thm_C10_CoverageMap ==
    pc = "cov_done" =>
        /\ Len(coverage_map) = Len(lats)
        /\ \A a \in 1..Len(lats) :
            /\ Len(coverage_map[a]) = Len(lons)
            /\ \A b \in 1..Len(lons) :
                coverage_map[a][b] =
                    VisibleTo(R(lats[a]), R(lons[b]),
                              Rat(flight_level * 100 * 3048, 10000))

\* a finished map with visible and blocked cells in one row
Wit_C10_CoverageMap ==
    /\ pc = "cov_done"
    /\ flight_level > 0
    /\ \E a \in 1..Len(lats) : \E b, c \in 1..Len(lons) :
        coverage_map[a][b] /\ ~coverage_map[a][c]

-----------------------------------------------------------------------------
(* compute_all_coverage_maps *)

\* highest number of tiers in one call
MaxTiers == 2

\* faulty variant: one matrix is shared by all entries of the dict
StoreMapShared(maps, fl, m) == [x \in DOMAIN maps \cup {fl} |-> m]

\* coverage_maps[flight_level] = coverage_map
StoreMap(maps, fl, m) ==
    [x \in DOMAIN maps \cup {fl} |-> IF x = fl THEN m ELSE maps[x]]

\* line 143: the empty dict
AllStart ==
    /\ pc = "all_start"
    /\ coverage_maps' = <<>>
    /\ idx' = 0
    /\ pc' = "all_loop"
    /\ UNCHANGED <<gridVars, groupVars, queryVars, losArgs, losLocals, ret, covArgs,
                   covLocals, flight_levels, progress_callback, tier_calls,
                   convVars, maskVars>>

\* lines 145-152: compute_coverage_map is called for the next tier, without
\* a listener
AllCall ==
    /\ pc = "all_loop"
    /\ idx < Len(flight_levels)
    /\ flight_level' = flight_levels[idx + 1]
    /\ point_progress_callback' = FALSE
    /\ cret' = "all_store"
    /\ pc' = "cov_start"
    /\ UNCHANGED <<gridVars, groupVars, queryVars, losArgs, losLocals, ret, covLocals,
                   tierVars, convVars, maskVars>>

\* faulty variant: the tier callback is told the 0-based position
AllStoreZeroBased ==
    /\ pc = "all_store"
    /\ tier_calls' =
        IF progress_callback
        THEN Append(tier_calls, <<flight_level, idx, Len(flight_levels)>>)
        ELSE tier_calls
    /\ coverage_maps' = StoreMap(coverage_maps, flight_level, coverage_map)
    /\ idx' = idx + 1
    /\ pc' = "all_loop"
    /\ UNCHANGED <<gridVars, groupVars, queryVars, losArgs, losLocals, ret, covArgs,
                   covLocals, flight_levels, progress_callback, convVars,
                   maskVars>>

\* lines 154-160: the tier callback is told, the matrix is stored
AllStore ==
    /\ pc = "all_store"
    /\ tier_calls' =
        IF progress_callback
        THEN Append(tier_calls, <<flight_level, idx + 1, Len(flight_levels)>>)
        ELSE tier_calls
    /\ coverage_maps' = StoreMap(coverage_maps, flight_level, coverage_map)
    /\ idx' = idx + 1
    /\ pc' = "all_loop"
    /\ UNCHANGED <<gridVars, groupVars, queryVars, losArgs, losLocals, ret, covArgs,
                   covLocals, flight_levels, progress_callback, convVars,
                   maskVars>>

\* line 162: every tier is done
AllReturn ==
    /\ pc = "all_loop"
    /\ idx >= Len(flight_levels)
    /\ pc' = "all_done"
    /\ UNCHANGED <<gridVars, groupVars, queryVars, losArgs, losLocals, ret, covArgs,
                   covLocals, tierVars, convVars, maskVars>>

-----------------------------------------------------------------------------
(* Specification of the coverage operations: one call of
   compute_coverage_map, or one call of compute_all_coverage_maps *)

\* the lists of at most MaxTiers tiers, in any order, repetitions included
TierLists ==
    UNION {[1..n -> {0, MaxFL}] : n \in 0..MaxTiers}

\* the observer on the first stored vertex or outside the grid
InitAllMaps ==
    /\ lats = Axis(MaxLat, TRUE)
    /\ lons = Axis(MaxLon, FALSE)
    /\ Z \in OneVertexGrids(MaxLat, MaxLon)
    /\ q_lat = R(0) /\ q_lon = R(0) /\ z_out = None
    /\ \E o \in {<<R(lats[1]), R(lons[1])>>, Outside} :
        radar_lat = o[1] /\ radar_lon = o[2]
    /\ radar_height_agl_m = MaxAgl
    /\ n_samples = MaxSamples
    /\ margin_m = 0
    /\ flight_levels \in TierLists
    /\ progress_callback \in BOOLEAN
    /\ target_lat = R(0) /\ target_lon = R(0) /\ target_alt_m_msl = R(0)
    /\ k = 0 /\ z_radar = None /\ result = FALSE /\ lookups = <<>>
    /\ ret = "done"
    /\ CovIdle
    /\ idx = 0 /\ coverage_maps = <<>> /\ tier_calls = <<>>
    /\ ConvIdle
    /\ MaskIdle
    /\ GroupIdle
    /\ pc = "all_start"

InitCoverage == InitCov \/ InitAllMaps

NextCoverage ==
    \/ AllStart \/ AllCall \/ AllStore \/ AllReturn
    \/ CovStart \/ CovCall \/ CovWrite \/ CovReturn
    \/ LosObserver \/ LosSample \/ LosReturn

SpecCoverage == InitCoverage /\ [][NextCoverage]_vars

\* one call of compute_all_coverage_maps
SpecTiers == InitAllMaps /\ [][NextCoverage]_vars

-----------------------------------------------------------------------------
(* Claims about compute_all_coverage_maps and progress reporting *)

\* the matrix of the visibilities of all grid vertices at flight level fl,
\* for the observer, grid, sample count and margin of the state
MapOf(fl) ==
    [a \in 1..Len(lats) |-> [b \in 1..Len(lons) |->
        VisibleTo(R(lats[a]), R(lons[b]), Rat(fl * 100 * 3048, 10000))]]

\* the tiers listed
Tiers == {flight_levels[n] : n \in 1..Len(flight_levels)}

\* C11: the mapping compute_all_coverage_maps returns has exactly the listed
\* tiers as keys; the matrix under each tier has the grid's shape and is the
\* matrix of that tier alone for the same observer and grid; so the mapping
\* depends on the set of tiers only, not on their order.
Thm_C11_TiersIndependent ==
    pc = "all_done" =>
        /\ DOMAIN coverage_maps = Tiers
        /\ \A fl \in Tiers :
            /\ Len(coverage_maps[fl]) = Len(lats)
            /\ \A a \in 1..Len(lats) : Len(coverage_maps[fl][a]) = Len(lons)
            /\ coverage_maps[fl] = MapOf(fl)

\* two tiers listed in descending order whose matrices differ
Wit_C11_TiersIndependent ==
    /\ pc = "all_done"
    /\ Len(flight_levels) = 2
    /\ flight_levels[1] > flight_levels[2]
    /\ coverage_maps[flight_levels[1]] # coverage_maps[flight_levels[2]]

\* C12: the matrix compute_coverage_map returns is the same function of
\* observer, tier, grid, sample count and margin whether or not a listener
\* is given, and the mapping compute_all_coverage_maps returns is the same
\* function of its inputs whether or not a tier callback is given.
Thm_C12_ProgressIsAdvisory ==
    /\ pc = "cov_done" => coverage_map = MapOf(flight_level)
    /\ pc = "all_done" => coverage_maps = [fl \in Tiers |-> MapOf(fl)]

\* a finished matrix with a visible cell whose every cell was reported to
\* the listener
Wit_C12_ProgressIsAdvisory ==
    /\ pc = "cov_done"
    /\ point_progress_callback
    /\ Len(calls) = TotalPoints
    /\ \E a \in 1..Len(lats), b \in 1..Len(lons) : coverage_map[a][b]

\* a finished mapping of two tiers, each reported to the tier callback
Wit_C12_TierCallback ==
    /\ pc = "all_done"
    /\ progress_callback
    /\ Len(tier_calls) = 2
    /\ \E fl \in Tiers : \E a \in 1..Len(lats), b \in 1..Len(lons) :
        coverage_maps[fl][a][b]

-----------------------------------------------------------------------------
(* Double-precision arithmetic, for the flight-level conversion.

   A natural number of any size is the sequence of its binary digits, the
   least significant first and the last one 1; zero is the empty sequence.
   A non-negative double is <<m, e>>, of value m * 2^e, with m a natural
   number of exactly 53 binary digits; 0.0 is <<<<>>, 0>>. *)

\* the binary digits of the integer n
RECURSIVE Bits(_)
Bits(n) == IF n = 0 THEN <<>> ELSE <<n % 2>> \o Bits(n \div 2)

\* b without its leading zero digits
RECURSIVE Trim(_)
Trim(b) ==
    IF b = <<>> \/ b[Len(b)] = 1 THEN b ELSE Trim(SubSeq(b, 1, Len(b) - 1))

\* b * 2^n
Shl(b, n) == IF b = <<>> THEN <<>> ELSE [i \in 1..n |-> 0] \o b

\* The operations below work on thirteen digits at a time (2^13 = 8192).

\* the integer that the w lowest digits of b denote
RECURSIVE LowInt(_, _)
LowInt(b, w) ==
    IF w = 0 \/ b = <<>> THEN 0 ELSE b[1] + 2 * LowInt(Tail(b), w - 1)

\* the thirteen lowest digits of the integer v >= 0
Chunk(v) == [i \in 1..13 |-> (v \div 2^(i - 1)) % 2]

\* b without its thirteen lowest digits
Rest(b) == SubSeq(b, 14, Len(b))

\* a + b + c, c a carry; leading zeros are kept
RECURSIVE BigAddC(_, _, _)
BigAddC(a, b, c) ==
    IF a = <<>> /\ b = <<>> THEN Bits(c)
    ELSE Chunk(LowInt(a, 13) + LowInt(b, 13) + c) \o
         BigAddC(Rest(a), Rest(b),
                 (LowInt(a, 13) + LowInt(b, 13) + c) \div 8192)

BigAdd(a, b) == Trim(BigAddC(a, b, 0))

\* a - b - c for a >= b + c, c a borrow; leading zeros are kept
RECURSIVE BigSubC(_, _, _)
BigSubC(a, b, c) ==
    IF a = <<>> THEN <<>>
    ELSE Chunk((LowInt(a, 13) - LowInt(b, 13) - c) % 8192) \o
         BigSubC(Rest(a), Rest(b),
                 IF LowInt(a, 13) - LowInt(b, 13) - c < 0 THEN 1 ELSE 0)

BigSub(a, b) == Trim(BigSubC(a, b, 0))

BigLess(a, b) ==
    \/ Len(a) < Len(b)
    \/ /\ Len(a) = Len(b)
       /\ \E i \in 1..Len(a) :
            /\ a[i] < b[i]
            /\ \A j \in (i + 1)..Len(a) : a[j] = b[j]

\* a * n + c for integers 0 <= n, c < 8192; leading zeros are kept
RECURSIVE MulSmallC(_, _, _)
MulSmallC(a, n, c) ==
    IF a = <<>> THEN Bits(c)
    ELSE Chunk(LowInt(a, 13) * n + c) \o
         MulSmallC(Rest(a), n, (LowInt(a, 13) * n + c) \div 8192)

\* a * b
RECURSIVE BigMul(_, _)
BigMul(a, b) ==
    IF b = <<>> THEN <<>>
    ELSE BigAdd(Trim(MulSmallC(a, LowInt(b, 13), 0)),
                Shl(BigMul(a, Rest(b)), 13))

\* <<a \div d, a % d>> for an integer 0 < d <= 10000; leading zeros of the
\* quotient are kept
RECURSIVE DivRemC(_, _)
DivRemC(a, d) ==
    IF a = <<>> THEN <<<<>>, 0>>
    ELSE LET hi == DivRemC(Rest(a), d)
             v == 8192 * hi[2] + LowInt(a, 13)
         IN  <<Chunk(v \div d) \o hi[1], v % d>>

DivRem(a, d) == <<Trim(DivRemC(a, d)[1]), DivRemC(a, d)[2]>>

\* the number of binary digits of the significand of a double
Precision == 53

\* q * 2^e, plus a non-zero amount below one unit of q when sticky holds,
\* rounded to the nearest double, ties to the even significand
RoundToDouble(q, sticky, e) ==
    IF q = <<>> THEN <<<<>>, 0>>
    ELSE IF Len(q) <= Precision
    THEN <<Shl(q, Precision - Len(q)), e - (Precision - Len(q))>>
    ELSE LET d == Len(q) - Precision
             high == SubSeq(q, d + 1, Len(q))
             rest == sticky \/ \E i \in 1..(d - 1) : q[i] = 1
             up == q[d] = 1 /\ (rest \/ high[1] = 1)
             inc == IF up THEN BigAdd(high, <<1>>) ELSE high
         IN  IF Len(inc) > Precision THEN <<Tail(inc), e + d + 1>>
             ELSE <<inc, e + d>>

\* float(n) for an integer n >= 0
FloatOfInt(n) == RoundToDouble(Bits(n), FALSE, 0)

\* the double a decimal literal num / den denotes (0 < num, 0 < den <= 10000)
FloatOfDecimal(num, den) ==
    LET qr == DivRem(Shl(Bits(num), 70), den)
    IN  RoundToDouble(qr[1], qr[2] # 0, -70)

\* x * y on doubles
FMul(x, y) ==
    IF x[1] = <<>> \/ y[1] = <<>> THEN <<<<>>, 0>>
    ELSE RoundToDouble(BigMul(x[1], y[1]), FALSE, x[2] + y[2])

\* faulty variant: the foot is rounded to 0.305 m
fl_to_m_rounded_foot(FL) ==
    FMul(FMul(FL, FloatOfInt(100)), FloatOfDecimal(305, 1000))

\* fl_to_m(FL) in double precision
fl_to_m(FL) == FMul(FMul(FL, FloatOfInt(100)), FloatOfDecimal(3048, 10000))

-----------------------------------------------------------------------------
(* Specification of the flight-level conversion *)

\* highest flight level converted
MaxConvFL == 60

InitConv ==
    /\ lats = Axis(MaxLat, TRUE)
    /\ lons = Axis(MaxLon, FALSE)
    /\ Z = [i \in 1..MaxLat |-> [j \in 1..MaxLon |-> 0]]
    /\ q_lat = R(0) /\ q_lon = R(0) /\ z_out = None
    /\ LosIdle
    /\ CovIdle
    /\ GroupIdle
    /\ TierIdle
    /\ MaskIdle
    /\ fl_arg \in 0..MaxConvFL
    /\ fl_value = None
    /\ pc = "idle"

\* one call of fl_to_m
Convert ==
    /\ pc = "idle"
    /\ fl_value' = fl_to_m(FloatOfInt(fl_arg))
    /\ pc' = "converted"
    /\ UNCHANGED <<gridVars, groupVars, queryVars, losArgs, losLocals, ret, covArgs,
                   covLocals, tierVars, fl_arg, maskVars>>

NextConv == Convert

SpecConv == InitConv /\ [][NextConv]_vars

-----------------------------------------------------------------------------
(* Claims about fl_to_m *)

\* the double x has exactly the value of the integer n
ValueIs(x, n) ==
    IF n = 0 THEN x[1] = <<>>
    ELSE x[1] # <<>> /\ x[2] <= 0 /\ x[1] = Shl(Bits(n), -x[2])

\* the double x differs from the rational num / den by less than ulps units
\* in the last place of x (x of value m * 2^e, e <= 0:
\* |den * m - num * 2^-e| < ulps * den)
Within(x, num, den, ulps) ==
    IF x[1] = <<>> THEN num = 0
    ELSE /\ x[2] <= 0
         /\ LET got == BigMul(x[1], Bits(den))
                want == Shl(Bits(num), -x[2])
                diff == IF BigLess(got, want) THEN BigSub(want, got)
                        ELSE BigSub(got, want)
            IN  BigLess(diff, Bits(ulps * den))

\* C13: fl_to_m(FL) is FL * 100 * 0.3048 = FL * 762 / 25 in double
\* precision: it differs from the exact product by less than two units in
\* the last place, it is the exact product whenever that is a whole number
\* of metres, and flight level 50 gives exactly 1524.0.
Thm_C13_FlightLevel ==
    pc = "converted" =>
        /\ Within(fl_value, fl_arg * 762, 25, 2)
        /\ (fl_arg * 762) % 25 = 0 => ValueIs(fl_value, (fl_arg * 762) \div 25)
        /\ fl_arg = 50 => ValueIs(fl_value, 1524)

\* flight level 50 converted: 1524.0 = (1524 * 2^42) * 2^-42
Wit_C13_FlightLevel ==
    /\ pc = "converted"
    /\ fl_arg = 50
    /\ fl_value[2] = -42
    /\ fl_value[1] = Shl(Bits(1524), 42)

\* a flight level whose conversion is not exact
Wit_C13_Rounded ==
    /\ pc = "converted"
    /\ fl_value[1] # <<>>
    /\ BigMul(fl_value[1], Bits(25)) # Shl(Bits(fl_arg * 762), -fl_value[2])

-----------------------------------------------------------------------------
(* Site-location masks.  A mask is a matrix of booleans, mask[i][j]. *)

\* array.shape of a matrix
Shape(M) == <<Len(M), Len(M[1])>>

\* faulty variant: sea level counts as land
LandOrSea(z) == z >= 0

\* Z > 0.0, for one element
Land(z) == z > 0

\* mask_land(lats, lons, Z)
MaskLand ==
    /\ pc = "land"
    /\ IF Shape(Z) # <<Len(lats), Len(lons)>>
       THEN mask' = None /\ raised' = "ValueError"
       ELSE /\ mask' = [i \in 1..Len(Z) |-> [j \in 1..Len(Z[i]) |->
                            Land(Z[i][j])]]
            /\ raised' = "none"
    /\ pc' = "land_done"
    /\ UNCHANGED <<gridVars, groupVars, queryVars, losArgs, losLocals, ret, covArgs,
                   covLocals, tierVars, convVars, masks>>

\* The region mask compares coordinates with 43.72, 43.75, 7.40, 7.44 and
\* 7.5 degrees: in the states of mask_french_territory the axes are in
\* hundredths of a degree.
monaco_lat_min == 4372
monaco_lat_max == 4375
monaco_lon_min == 740
monaco_lon_max == 744

\* the longitude east of which all is excluded, 7.5 degrees
italy_lon == 750

\* np.ones((len(lats), len(lons)), dtype=bool)
Ones(n, m) == [i \in 1..n |-> [j \in 1..m |-> TRUE]]

\* monaco_mask
MonacoMask ==
    [i \in 1..Len(lats) |-> [j \in 1..Len(lons) |->
        /\ lats[i] >= monaco_lat_min /\ lats[i] <= monaco_lat_max
        /\ lons[j] >= monaco_lon_min /\ lons[j] <= monaco_lon_max]]

\* italy_mask
ItalyMask ==
    [i \in 1..Len(lats) |-> [j \in 1..Len(lons) |-> lons[j] > italy_lon]]

\* faulty variant: the rule overwrites the mask instead of clearing cells
ExcludeOverwrite(M, excluded) ==
    [i \in 1..Len(M) |-> [j \in 1..Len(M[i]) |-> ~excluded[i][j]]]

\* mask[excluded] = False
Exclude(M, excluded) ==
    [i \in 1..Len(M) |-> [j \in 1..Len(M[i]) |->
        IF excluded[i][j] THEN FALSE ELSE M[i][j]]]

\* line 194: all points are admissible at first
RegionStart ==
    /\ pc = "region_start"
    /\ mask' = Ones(Len(lats), Len(lons))
    /\ pc' = "region_monaco"
    /\ UNCHANGED <<gridVars, groupVars, queryVars, losArgs, losLocals, ret, covArgs,
                   covLocals, tierVars, convVars, masks, raised>>

\* lines 198-205: the bounding box is excluded
RegionMonaco ==
    /\ pc = "region_monaco"
    /\ mask' = Exclude(mask, MonacoMask)
    /\ pc' = "region_italy"
    /\ UNCHANGED <<gridVars, groupVars, queryVars, losArgs, losLocals, ret, covArgs,
                   covLocals, tierVars, convVars, masks, raised>>

\* lines 210-213: the east is excluded, the mask is returned
RegionItaly ==
    /\ pc = "region_italy"
    /\ mask' = Exclude(mask, ItalyMask)
    /\ pc' = "region_done"
    /\ UNCHANGED <<gridVars, groupVars, queryVars, losArgs, losLocals, ret, covArgs,
                   covLocals, tierVars, convVars, masks, raised>>

\* faulty variant: only the numbers of rows are compared
SameShapeRowsOnly(A, B) == Len(A) = Len(B)

\* mask.shape == shape
SameShape(A, B) == Shape(A) = Shape(B)

\* lines 157-160: every mask has the shape of the first
ShapesAgree(ms) == \A i \in 2..Len(ms) : SameShape(ms[i], ms[1])

\* numpy can broadcast the shapes of A and B to one shape
Broadcastable(A, B) ==
    \A d \in 1..2 :
        Shape(A)[d] = Shape(B)[d] \/ Shape(A)[d] = 1 \/ Shape(B)[d] = 1

\* faulty variant: the mask replaces the result
LogicalAndOverwrite(A, B) == B

\* faulty variant: logical_or
LogicalOr(A, B) ==
    [i \in 1..Max2(Len(A), Len(B)) |-> [j \in 1..Max2(Len(A[1]), Len(B[1])) |->
        \/ A[IF Len(A) = 1 THEN 1 ELSE i][IF Len(A[1]) = 1 THEN 1 ELSE j]
        \/ B[IF Len(B) = 1 THEN 1 ELSE i][IF Len(B[1]) = 1 THEN 1 ELSE j]]]

\* np.logical_and(A, B) for broadcastable A and B: a dimension of length 1
\* is repeated
LogicalAnd(A, B) ==
    [i \in 1..Max2(Len(A), Len(B)) |-> [j \in 1..Max2(Len(A[1]), Len(B[1])) |->
        /\ A[IF Len(A) = 1 THEN 1 ELSE i][IF Len(A[1]) = 1 THEN 1 ELSE j]
        /\ B[IF Len(B) = 1 THEN 1 ELSE i][IF Len(B[1]) = 1 THEN 1 ELSE j]]]

\* lines 163-165: the loop over masks[1:], from index i (1-based) on; None
\* when np.logical_and raises
RECURSIVE AndFrom(_, _, _)
AndFrom(res, ms, i) ==
    IF i > Len(ms) THEN res
    ELSE IF ~Broadcastable(res, ms[i]) THEN None
    ELSE AndFrom(LogicalAnd(res, ms[i]), ms, i + 1)

\* combine_masks(*masks): the mask returned, None when it raises ValueError
CombineMasks(ms) ==
    IF Len(ms) = 0 THEN None
    ELSE IF ~ShapesAgree(ms) THEN None
    ELSE AndFrom(ms[1], ms, 2)

\* one call of combine_masks
Combine ==
    /\ pc = "combine"
    /\ \E m \in {CombineMasks(masks)} :
        /\ mask' = m
        /\ raised' = IF m = None THEN "ValueError" ELSE "none"
    /\ pc' = "combined"
    /\ UNCHANGED <<gridVars, groupVars, queryVars, losArgs, losLocals, ret, covArgs,
                   covLocals, tierVars, convVars, masks>>

-----------------------------------------------------------------------------
(* Specification of the mask operations: one call of mask_land, of
   mask_french_territory or of combine_masks *)

\* highest number of masks combined
MaxMasks == 3

\* mask_land is given any one-cell terrain
InitLand ==
    /\ \E a \in BOOLEAN : lats = Axis(MaxLat, a)
    /\ \E b \in BOOLEAN : lons = Axis(MaxLon, b)
    /\ Z \in OneCellGrids(MaxLat, MaxLon)
    /\ pc = "land"

\* the strictly increasing sequences of n elements of the set S
Increasing(n, S) ==
    {f \in [1..n -> S] : \A i \in 1..(n - 1) : f[i] < f[i + 1]}

\* latitudes and longitudes on, next to and between the borders of the rules
RegionLats == {4371, 4372, 4373, 4375, 4376, 4377}
RegionLons == {739, 740, 742, 744, 745, 750, 751, 752}

\* mask_french_territory is given ascending or descending axes
InitRegion ==
    /\ \E f \in Increasing(MaxLat, RegionLats) : lats \in {f, Reverse(f)}
    /\ \E f \in Increasing(MaxLon, RegionLons) : lons \in {f, Reverse(f)}
    /\ Z = [i \in 1..MaxLat |-> [j \in 1..MaxLon |-> 0]]
    /\ pc = "region_start"

\* the masks of n x m cells that are constant or have exactly one true cell
Masks(n, m) ==
    {[i \in 1..n |-> [j \in 1..m |-> v]] : v \in BOOLEAN}
    \cup {[i \in 1..n |-> [j \in 1..m |-> <<i, j>> = c]] :
            c \in (1..n) \X (1..m)}

\* constant masks of the grid's shape, of a single row, of a single column
\* and of one column less
MixedMasks ==
    UNION {{[i \in 1..sh[1] |-> [j \in 1..sh[2] |-> v]] : v \in BOOLEAN} :
           sh \in {<<MaxLat, MaxLon>>, <<1, MaxLon>>, <<MaxLat, 1>>,
                   <<MaxLat, MaxLon - 1>>}}

\* combine_masks is given at most MaxMasks masks, of one shape or not
InitCombine ==
    /\ lats = Axis(MaxLat, TRUE)
    /\ lons = Axis(MaxLon, TRUE)
    /\ Z = [i \in 1..MaxLat |-> [j \in 1..MaxLon |-> 0]]
    /\ \E n \in 0..MaxMasks :
        masks \in [1..n -> Masks(MaxLat, MaxLon)] \cup [1..n -> MixedMasks]
    /\ pc = "combine"

InitMasks ==
    /\ q_lat = R(0) /\ q_lon = R(0) /\ z_out = None
    /\ LosIdle
    /\ CovIdle
    /\ GroupIdle
    /\ TierIdle
    /\ ConvIdle
    /\ mask = None /\ raised = "none"
    /\ \/ InitLand /\ masks = <<>>
       \/ InitRegion /\ masks = <<>>
       \/ InitCombine

NextMasks ==
    \/ MaskLand
    \/ RegionStart \/ RegionMonaco \/ RegionItaly
    \/ Combine

SpecMasks == InitMasks /\ [][NextMasks]_vars

-----------------------------------------------------------------------------
(* Claims about the masks *)

\* C14: mask_land returns a mask of the grid's shape that is true exactly
\* at the cells whose elevation is strictly above 0; sea level and negative
\* (no-data) elevations are both false.
Thm_C14_LandMask ==
    pc = "land_done" =>
        /\ raised = "none"
        /\ Len(mask) = Len(lats)
        /\ \A i \in 1..Len(lats) :
            /\ Len(mask[i]) = Len(lons)
            /\ \A j \in 1..Len(lons) : mask[i][j] <=> Z[i][j] > 0

\* a land mask of a terrain with a no-data cell, a sea-level cell and a
\* land cell
Wit_C14_LandMask ==
    /\ pc = "land_done"
    /\ \E i1, i2, i3 \in 1..Len(lats) : \E j1, j2, j3 \in 1..Len(lons) :
        /\ Z[i1][j1] < 0 /\ ~mask[i1][j1]
        /\ Z[i2][j2] = 0 /\ ~mask[i2][j2]
        /\ Z[i3][j3] > 0 /\ mask[i3][j3]

\* the point is inside the excluded box 43.72..43.75 x 7.40..7.44, borders
\* included (hundredths of a degree)
InBox(lat, lon) == 4372 <= lat /\ lat <= 4375 /\ 740 <= lon /\ lon <= 744

\* the point is east of 7.5 degrees
East(lat, lon) == lon > 750

\* the mask is true exactly at the points of the grid that satisfy Keep
MaskIs(Keep(_, _)) ==
    /\ Len(mask) = Len(lats)
    /\ \A i \in 1..Len(lats) :
        /\ Len(mask[i]) = Len(lons)
        /\ \A j \in 1..Len(lons) : mask[i][j] <=> Keep(lats[i], lons[j])

AnyPoint(lat, lon) == TRUE

OutsideBox(lat, lon) == ~InBox(lat, lon)

NoRuleExcludes(lat, lon) == ~InBox(lat, lon) /\ ~East(lat, lon)

\* a step of mask_french_territory admits no point that was excluded
RegionStepShrinks ==
    pc \in {"region_monaco", "region_italy"} =>
        \A i \in 1..Len(lats), j \in 1..Len(lons) :
            mask'[i][j] => mask[i][j]

\* C16: mask_french_territory starts with every point admissible; the box
\* rule leaves exactly the points outside the box, borders excluded with
\* the box; the longitude rule then leaves exactly the points no rule
\* excludes; and no step admits a point that an earlier step excluded.
Thm_C16_RegionShrinks ==
    /\ [](pc = "region_monaco" => MaskIs(AnyPoint))
    /\ [](pc = "region_italy" => MaskIs(OutsideBox))
    /\ [](pc = "region_done" => MaskIs(NoRuleExcludes))
    /\ [][RegionStepShrinks]_vars

\* a finished region mask with a point excluded on the border of the box,
\* that the longitude rule alone would admit, a point excluded by the
\* longitude rule and an admitted point on the longitude 7.5
Wit_C16_RegionShrinks ==
    /\ pc = "region_done"
    /\ \E i \in 1..Len(lats) : \E j1, j2, j3 \in 1..Len(lons) :
        /\ lats[i] \in {4372, 4375}
        /\ lons[j1] \in {740, 744} /\ ~mask[i][j1]
        /\ lons[j2] > 750 /\ ~mask[i][j2]
        /\ lons[j3] = 750 /\ mask[i][j3]

\* the numbers of rows and of columns of a mask
Dims(M) == <<Len(M), Len(M[1])>>

\* some mask given to combine_masks has not the dimensions of the first
Mismatched == \E i \in 1..Len(masks) : Dims(masks[i]) # Dims(masks[1])

\* C17: combine_masks called with no mask, or with a mask whose shape
\* differs from the first mask's, raises an error and returns nothing; a
\* mask it returns has the shape of every mask given, so nothing was
\* broadcast or truncated.
Thm_C17_CombineRejects ==
    pc = "combined" =>
        /\ (Len(masks) = 0 \/ Mismatched) =>
                raised = "ValueError" /\ mask = None
        /\ raised = "none" =>
                \A i \in 1..Len(masks) : Dims(mask) = Dims(masks[i])

\* a rejected call whose third mask is a single column that numpy could
\* broadcast to the shape of the first two
Wit_C17_CombineRejects ==
    /\ pc = "combined"
    /\ raised = "ValueError"
    /\ Len(masks) = 3
    /\ Dims(masks[2]) = Dims(masks[1])
    /\ Dims(masks[1])[2] > 1
    /\ Dims(masks[3]) = <<Len(masks[1]), 1>>

\* a rejected call without masks
Wit_C17_NoMask ==
    pc = "combined" /\ masks = <<>> /\ raised = "ValueError" /\ mask = None

\* C18: for masks A, B, C of one shape, combine(A, B) = combine(B, A),
\* combine(combine(A, B), C) = combine(A, combine(B, C)) = combine(A, B, C),
\* and combine(A, A) = A.
Thm_C18_CombineLaws ==
    (pc = "combined" /\ raised = "none") =>
        /\ Len(masks) = 2 =>
            /\ mask = CombineMasks(<<masks[2], masks[1]>>)
            /\ masks[1] = masks[2] => mask = masks[1]
        /\ Len(masks) = 3 =>
            /\ mask = CombineMasks(<<CombineMasks(<<masks[1], masks[2]>>),
                                     masks[3]>>)
            /\ mask = CombineMasks(<<masks[1],
                                     CombineMasks(<<masks[2], masks[3]>>)>>)

\* three masks, each different from the next, combined to a mask with a
\* true and a false cell
Wit_C18_CombineLaws ==
    /\ pc = "combined"
    /\ raised = "none"
    /\ Len(masks) = 3
    /\ masks[1] # masks[2] /\ masks[2] # masks[3]
    /\ \E i1, i2 \in 1..Len(mask) : \E j1, j2 \in 1..Len(mask[1]) :
        mask[i1][j1] /\ ~mask[i2][j2]

\* a mask with a true and a false cell combined with itself
Wit_C18_Idempotent ==
    /\ pc = "combined"
    /\ raised = "none"
    /\ Len(masks) = 2
    /\ masks[1] = masks[2]
    /\ \E i1, i2 \in 1..Len(mask) : \E j1, j2 \in 1..Len(mask[1]) :
        mask[i1][j1] /\ ~mask[i2][j2]

\* the number of true cells of a mask
Count(M) ==
    Cardinality({c \in (1..Len(M)) \X (1..Len(M[1])) : M[c[1]][c[2]]})

\* C19: a cell of the combined mask is true exactly when it is true in all
\* the masks given, so the combined mask is a subset of each of them and
\* has at most as many true cells as each of them.
Thm_C19_CombineSubset ==
    (pc = "combined" /\ raised = "none") =>
        /\ \A i \in 1..Len(mask), j \in 1..Len(mask[1]) :
            mask[i][j] <=> \A n \in 1..Len(masks) : masks[n][i][j]
        /\ \A n \in 1..Len(masks) : Count(mask) <= Count(masks[n])

\* two masks with true cells whose combination has fewer true cells than
\* either
Wit_C19_CombineSubset ==
    /\ pc = "combined"
    /\ raised = "none"
    /\ Len(masks) = 2
    /\ Count(masks[1]) > Count(mask)
    /\ Count(masks[2]) > Count(mask)

-----------------------------------------------------------------------------
(* Specification of the operations on a grid whose elevation matrix may not
   have the shape of the axes: load_terrain_npz, mask_land, z_terrain *)

\* load_terrain_npz on a file that holds lats, lons and Z
Load ==
    /\ pc = "load"
    /\ raised' = IF Shape(Z) # <<Len(lats), Len(lons)>> THEN "ValueError"
                 ELSE "none"
    /\ pc' = "loaded"
    /\ UNCHANGED <<gridVars, groupVars, queryVars, losArgs, losLocals, ret, covArgs,
                   covLocals, tierVars, convVars, masks, mask>>

\* the matrix of n rows and m columns whose elevations are 1, 2, 3, ... row
\* by row
Ramp(n, m) == [i \in 1..n |-> [j \in 1..m |-> (i - 1) * m + j]]

\* the shape of the axes, and one row or one column more or less
GridShapes ==
    {<<MaxLat, MaxLon>>, <<MaxLat + 1, MaxLon>>, <<MaxLat, MaxLon + 1>>,
     <<MaxLat - 1, MaxLon>>, <<MaxLat, MaxLon - 1>>}

InitShape ==
    /\ \E a \in BOOLEAN : lats = Axis(MaxLat, a)
    /\ \E b \in BOOLEAN : lons = Axis(MaxLon, b)
    /\ \E sh \in GridShapes : Z = Ramp(sh[1], sh[2])
    /\ q_lat = R(0) /\ q_lon = R(0) /\ z_out = None
    /\ LosIdle
    /\ CovIdle
    /\ OthersIdle
    /\ pc \in {"load", "land", "idle"}

NextShape == Load \/ MaskLand \/ Query

SpecShape == InitShape /\ [][NextShape]_vars

\* C20: every operation that receives a grid whose elevation matrix has not
\* the shape (len(latitudes), len(longitudes)) fails with an error.
Orig_C20_ShapeMismatch ==
    (/\ pc \in {"loaded", "land_done", "queried"}
     /\ Dims(Z) # <<Len(lats), Len(lons)>>) => raised # "none"

\* load_terrain_npz and mask_land do reject such a grid
Inv_C20_CheckedOperations ==
    (/\ pc \in {"loaded", "land_done"}
     /\ Dims(Z) # <<Len(lats), Len(lons)>>) => raised = "ValueError"

\* z_terrain returned an elevation read from a matrix with one row too many
Wit_C20_SilentSubBlock ==
    /\ pc = "queried"
    /\ Len(Z) = Len(lats) + 1
    /\ raised = "none"
    /\ z_out # None

-----------------------------------------------------------------------------
(* Specification of the point elevation query on grids with distinct
   elevations, the grids with a repeated axis sample included: z_terrain
   does not inspect the axes beyond comparing their first and last sample *)

\* an axis of n samples in which one sample is stored twice
RepeatedAxes(n) ==
    { [i \in 1..n |-> Axis(n - 1, inc)[IF i <= d THEN i ELSE i - 1]] :
      d \in 1..(n - 1), inc \in BOOLEAN }

\* the axes of n samples
Axes(n) == {Axis(n, TRUE), Axis(n, FALSE)} \cup RepeatedAxes(n)

\* terrain of distinct elevations with at most one no-data vertex
RampGrids(n, m) ==
    {Ramp(n, m)} \cup
    { [i \in 1..n |-> [j \in 1..m |->
          IF <<i, j>> = v THEN -1 ELSE Ramp(n, m)[i][j]]] :
      v \in (1..n) \X (1..m) }

InitCell ==
    /\ lats \in Axes(MaxLat)
    /\ lons \in Axes(MaxLon)
    /\ Z \in RampGrids(MaxLat, MaxLon)
    /\ pc = "idle"
    /\ q_lat = R(0)
    /\ q_lon = R(0)
    /\ z_out = None
    /\ LosIdle
    /\ CovIdle
    /\ OthersIdle

SpecCell == InitCell /\ [][NextTerrain]_vars

\* the ordered pairs <<i0, i1>> of adjacent stored positions of axis a whose
\* samples enclose v: a[i0] <= v <= a[i1]
Enclosing(a, v) ==
    {p \in (1..Len(a)) \X (1..Len(a)) :
        /\ Abs(p[1] - p[2]) = 1
        /\ RLeq(R(a[p[1]]), v)
        /\ RLeq(v, R(a[p[2]]))}

\* the denominator of the fractional offset in the pair p of axis a
Width(a, p) == a[p[2]] - a[p[1]] + Eps

\* the fractional offset of v in the pair p of axis a
Offset(a, p, v) == RDiv(RSub(v, R(a[p[1]])), R(Width(a, p)))

InUnit(x) == RLeq(R(0), x) /\ RLeq(x, R(1))

\* no corner of the cell of the latitude pair p and the longitude pair q is
\* no-data
CornersKnown(p, q) ==
    \A i \in {p[1], p[2]}, j \in {q[1], q[2]} : Z[i][j] >= 0

\* (1-t)*((1-u)*z00 + u*z01) + t*((1-u)*z10 + u*z11) in the cell of the
\* latitude pair p and the longitude pair q
BilinearIn(p, q) ==
    LET t == Offset(lats, p, q_lat)
        u == Offset(lons, q, q_lon)
        z00 == R(Z[p[1]][q[1]])
        z01 == R(Z[p[1]][q[2]])
        z10 == R(Z[p[2]][q[1]])
        z11 == R(Z[p[2]][q[2]])
    IN  RAdd(RMul(RSub(R(1), t),
                  RAdd(RMul(RSub(R(1), u), z00), RMul(u, z01))),
             RMul(t,
                  RAdd(RMul(RSub(R(1), u), z10), RMul(u, z11))))

\* the cells the returned value is the bilinear blend of
CellsUsed ==
    {c \in Enclosing(lats, q_lat) \X Enclosing(lons, q_lon) :
        /\ CornersKnown(c[1], c[2])
        /\ z_out = BilinearIn(c[1], c[2])}

\* C21: an in-bounds query raises nothing; it returns a value when no
\* enclosing cell has a no-data corner; a value it returns is the bilinear
\* blend (1-t)*((1-u)*z00 + u*z01) + t*((1-u)*z10 + u*z11) in a cell of two
\* adjacent latitude samples lat0 <= lat <= lat1 and two adjacent longitude
\* samples lon0 <= lon <= lon1 without no-data corner, with
\* t = (lat - lat0)/(lat1 - lat0 + eps) and u = (lon - lon0)/(lon1 - lon0 +
\* eps), both in [0, 1], and both denominators positive also when the cell
\* has zero width.
Thm_C21_Bilinear ==
    (pc = "queried" /\ QueryInBounds) =>
        /\ raised = "none"
        /\ (\A p \in Enclosing(lats, q_lat), q \in Enclosing(lons, q_lon) :
                CornersKnown(p, q)) => z_out # None
        /\ z_out # None =>
            \E p \in Enclosing(lats, q_lat), q \in Enclosing(lons, q_lon) :
                /\ CornersKnown(p, q)
                /\ Width(lats, p) > 0 /\ Width(lons, q) > 0
                /\ InUnit(Offset(lats, p, q_lat))
                /\ InUnit(Offset(lons, q, q_lon))
                /\ z_out = BilinearIn(p, q)

\* a query strictly inside a cell of positive width, off the diagonal
Wit_C21_Bilinear ==
    /\ pc = "queried"
    /\ QueryInBounds
    /\ z_out # None
    /\ \E c \in CellsUsed :
        /\ Offset(lats, c[1], q_lat) \notin {R(0), Offset(lons, c[2], q_lon)}
        /\ Offset(lons, c[2], q_lon) # R(0)

\* a query answered from a cell of zero width and from no other cell
Wit_C21_ZeroWidth ==
    /\ pc = "queried"
    /\ QueryInBounds
    /\ z_out # None
    /\ CellsUsed # {}
    /\ \A c \in CellsUsed : lons[c[2][1]] = lons[c[2][2]]

-----------------------------------------------------------------------------
(* Specification of one line-of-sight evaluation, for the claims about the
   order and the extent of its sampling *)

SpecSampling == InitLOS /\ [][NextLOS]_vars

-----------------------------------------------------------------------------
(* Claims about the order and the extent of the sampling of los_visible *)

\* the n-th terrain lookup of the run was made for sample index n - 1
InOrder(n) == lookups[n][1] = n - 1

\* the ground at path fraction s is known and, with the margin, reaches the
\* line from the eye to the target
ReachesFrom(eye, ground, s) ==
    /\ ground # None
    /\ RLeq(Line(eye, target_alt_m_msl, s), RAdd(ground, R(margin_m)))

Reaches(ground, s) == ReachesFrom(Eye, ground, s)

\* C22: the n-th terrain lookup after the observer's is made at the path
\* fraction k/sample_count with k = n, and k lies in 1..sample_count-1: no
\* lookup is made for the fraction 0 or 1 to be tested against the line; a
\* run that returns true has tested exactly the fractions k/sample_count,
\* k = 1..sample_count-1.
Thm_C22_EndpointExclusion ==
    /\ \A n \in 2..Len(lookups) :
        /\ InOrder(n)
        /\ 1 <= lookups[n][1] /\ lookups[n][1] <= n_samples - 1
        /\ lookups[n][2] = GroundAt(Rat(lookups[n][1], n_samples))
    /\ (pc = "done" /\ result = TRUE) =>
        {lookups[n][1] : n \in 2..Len(lookups)} = 1..(n_samples - 1)

\* a visible target whose own ground reaches the line at fraction 1, over
\* terrain that is known and lower than the line at every interior sample
Wit_C22_EndpointExclusion ==
    /\ pc = "done"
    /\ result = TRUE
    /\ n_samples >= 3
    /\ Len(lookups) = n_samples
    /\ Reaches(GroundAt(R(1)), R(1))

\* a visible target from an observer whose own ground reaches the line at
\* fraction 0
Wit_C22_ObserverEnd ==
    /\ pc = "done"
    /\ result = TRUE
    /\ n_samples >= 3
    /\ Reaches(GroundAt(R(0)), R(0))

\* the n-th lookup found no elevation, or (a path sample) ground that reaches
\* the line
Fails(n) ==
    \/ lookups[n][2] = None
    \/ n >= 2 /\ Reaches(lookups[n][2], Rat(lookups[n][1], n_samples))

\* C23: the observer is looked up first and the samples follow in
\* increasing k; a lookup that finds no elevation, or a sample whose ground
\* reaches the line, is the last lookup of the run, and the run has then
\* returned false.
Thm_C23_ShortCircuit ==
    /\ Len(lookups) >= 1 => lookups[1][1] = 0
    /\ \A n \in 2..Len(lookups) : lookups[n][1] = lookups[n - 1][1] + 1
    /\ \A n \in 1..Len(lookups) :
        lookups[n][2] = None =>
            (n = Len(lookups) /\ pc = "done" /\ result = FALSE)
    /\ Len(lookups) >= 2 =>
        \A eye \in {Eye} : \A n \in 2..Len(lookups) :
            ReachesFrom(eye, lookups[n][2], Rat(lookups[n][1], n_samples)) =>
                (n = Len(lookups) /\ pc = "done" /\ result = FALSE)

\* the first sample blocks in a run of three or more interior samples
Wit_C23_ShortCircuit ==
    /\ pc = "done"
    /\ n_samples >= 4
    /\ Len(lookups) = 2
    /\ lookups[2][2] # None
    /\ Fails(2)
    /\ result = FALSE

\* the observer's lookup fails and no sample is looked up
Wit_C23_ObserverFails ==
    /\ pc = "done"
    /\ n_samples >= 2
    /\ lookups = <<<<0, None>>>>
    /\ result = FALSE

\* C27: with sample_count <= 1 the only terrain lookup is the observer's and
\* the result is true exactly when the observer's ground elevation is known,
\* whatever the terrain and wherever the target.
Thm_C27_NoSamples ==
    (pc = "done" /\ n_samples <= 1) =>
        /\ Len(lookups) = 1
        /\ lookups[1][1] = 0
        /\ result = (GroundAt(R(0)) # None)

\* sample_count = 1, the target outside the grid, the result true
Wit_C27_NoSamples ==
    /\ pc = "done"
    /\ n_samples = 1
    /\ <<target_lat, target_lon>> = Outside
    /\ result = TRUE

\* sample_count = 0, the target on a no-data vertex, the result true
Wit_C27_NoDataTarget ==
    /\ pc = "done"
    /\ n_samples = 0
    /\ \E i \in 1..Len(lats), j \in 1..Len(lons) :
        /\ Z[i][j] < 0
        /\ target_lat = R(lats[i]) /\ target_lon = R(lons[j])
    /\ result = TRUE

-----------------------------------------------------------------------------
(* Specification of the progress reports of compute_coverage_map, on a grid
   of few cells and on a grid of a hundred cells and more *)

\* number of latitude samples of the large grid
BigLat == 10
\* number of longitude samples of the large grid
BigLon == 10

\* the shapes of the grids
ProgressShapes == {<<MaxLat, MaxLon>>, <<BigLat, BigLon>>}

\* terrain at sea level
Plain(n, m) == [i \in 1..n |-> [j \in 1..m |-> 0]]

\* the observer on the first stored vertex, one interior sample per path
InitProgress ==
    /\ \E sh \in ProgressShapes :
        /\ lats = Axis(sh[1], TRUE)
        /\ lons = Axis(sh[2], FALSE)
        /\ Z \in {Plain(sh[1], sh[2]), Ramp(sh[1], sh[2])}
    /\ q_lat = R(0) /\ q_lon = R(0) /\ z_out = None
    /\ radar_lat = R(lats[1]) /\ radar_lon = R(lons[1])
    /\ radar_height_agl_m = MaxAgl
    /\ flight_level \in {0, MaxFL}
    /\ n_samples = 2
    /\ margin_m = 0
    /\ point_progress_callback \in BOOLEAN
    /\ target_lat = R(0) /\ target_lon = R(0) /\ target_alt_m_msl = R(0)
    /\ k = 0 /\ z_radar = None /\ result = FALSE /\ lookups = <<>>
    /\ ret = "done"
    /\ coverage_map = <<>> /\ row_i = 0 /\ col_j = 0 /\ current_point = 0
    /\ calls = <<>>
    /\ cret = "cov_done"
    /\ OthersIdle
    /\ pc = "cov_start"

SpecProgress == InitProgress /\ [][NextCov]_vars

\* the number of cells of the grid
Cells == Len(lats) * Len(lons)

\* C24 as stated: on every grid of at least 2 cells a listener is invoked
\* fewer times than there are cells.
Orig_C24_BoundedCadence ==
    (pc = "cov_done" /\ point_progress_callback /\ Cells >= 2) =>
        Len(calls) < Cells

\* C24 amended: a listener is never invoked more often than there are cells
\* processed, nor more than 99 times; on a grid of fewer than 100 cells it is
\* invoked once per cell, and on a grid of at least 100 cells fewer times
\* than there are cells.
Thm_C24_BoundedCadence ==
    /\ Len(calls) <= current_point
    /\ Len(calls) <= 99
    /\ ~point_progress_callback => calls = <<>>
    /\ (pc = "cov_done" /\ point_progress_callback) =>
        /\ Cells < 100 => Len(calls) = Cells
        /\ Cells >= 100 => Len(calls) < Cells

\* a finished map of at least 100 cells with fewer reports than cells
Wit_C24_BoundedCadence ==
    /\ pc = "cov_done"
    /\ point_progress_callback
    /\ Cells >= 100
    /\ Len(calls) >= 2
    /\ Len(calls) < Cells

\* a finished map of 2 to 99 cells with one report per cell
Wit_C24_EveryCell ==
    /\ pc = "cov_done"
    /\ point_progress_callback
    /\ Cells >= 2 /\ Cells < 100
    /\ Len(calls) = Cells

-----------------------------------------------------------------------------
(* Claims about the cells, the tiers and the reports of the coverage
   operations *)

\* the visibility of the grid vertex (r, c) at the tier of the call, a
\* function of the inputs of compute_coverage_map alone
CellValue(r, c) ==
    VisibleTo(R(lats[r]), R(lons[c]), Rat(flight_level * 100 * 3048, 10000))

\* the step sets all cells to false and the count of processed cells to 0
Initialises ==
    /\ pc = "cov_start"
    /\ current_point' = 0
    /\ coverage_map' =
        [r \in 1..Len(lats) |-> [c \in 1..Len(lons) |-> FALSE]]

\* the step processes one cell: the n-th cell processed is the n-th cell of
\* the grid in row order; it receives its own value and no other cell
\* changes
WritesOneCell ==
    LET r == (current_point \div Len(lons)) + 1
        c == (current_point % Len(lons)) + 1
    IN  /\ current_point < Cells
        /\ current_point' = current_point + 1
        /\ coverage_map' = [coverage_map EXCEPT ![r][c] = CellValue(r, c)]

CellStep ==
    (coverage_map' # coverage_map \/ current_point' # current_point) =>
        (Initialises \/ WritesOneCell)

\* C25: compute_coverage_map never changes latitudes, longitudes or
\* elevations; it writes the cells one at a time, each cell once (the n-th
\* write goes to the n-th cell, and there are as many writes as cells); the
\* value written is the visibility of that cell's vertex in terms of the
\* inputs alone, whatever the other cells hold.
Thm_C25_CellIndependence ==
    /\ [][UNCHANGED gridVars]_vars
    /\ [][CellStep]_vars
    /\ [](pc = "cov_done" => current_point = Cells)

\* in a row under way a blocked cell has been written after a visible cell
Wit_C25_CellIndependence ==
    /\ pc = "cov_loop"
    /\ row_i = 0
    /\ col_j >= 2
    /\ \E c \in 1..(col_j - 1) :
        coverage_map[1][c] /\ ~coverage_map[1][c + 1]

\* C26: in the mapping compute_all_coverage_maps returns, every cell that is
\* visible in the matrix of a tier is visible in the matrix of every higher
\* tier.
Thm_C26_TierMonotone ==
    pc = "all_done" =>
        \A lower, upper \in DOMAIN coverage_maps :
            lower <= upper =>
                \A a \in 1..Len(lats), b \in 1..Len(lons) :
                    coverage_maps[lower][a][b] => coverage_maps[upper][a][b]

\* two tiers with a cell that only the higher tier sees and a cell that both
\* tiers see
Wit_C26_TierMonotone ==
    /\ pc = "all_done"
    /\ \E lower, upper \in DOMAIN coverage_maps :
        /\ lower < upper
        /\ \E a \in 1..Len(lats), b \in 1..Len(lons) :
            ~coverage_maps[lower][a][b] /\ coverage_maps[upper][a][b]
        /\ \E a \in 1..Len(lats), b \in 1..Len(lons) :
            coverage_maps[lower][a][b] /\ coverage_maps[upper][a][b]

\* the reports a tier callback has received after n tiers
TierReports(n) ==
    [m \in 1..n |-> <<flight_levels[m], m, Len(flight_levels)>>]

\* compute_coverage_map is running for a tier
TierRunning ==
    /\ cret = "all_store"
    /\ pc \in {"cov_start", "cov_loop", "cov_write", "los_start", "los_loop"}

\* the step reports a tier: compute_coverage_map has returned for that
\* tier with every cell of the matrix written
ReportStep ==
    tier_calls' # tier_calls =>
        /\ pc = "all_store"
        /\ Len(tier_calls) < Len(flight_levels)
        /\ flight_level = flight_levels[Len(tier_calls) + 1]
        /\ current_point = Cells
        /\ Len(coverage_map) = Len(lats)
        /\ tier_calls' = TierReports(Len(tier_calls) + 1)

\* C28: the tier callback receives one report per element of the tier
\* sequence, in sequence order, with the arguments (tier, k, total), k the
\* 1-based position and total the length of the sequence; the report of a
\* tier is made when the matrix of the tier is complete and before the next
\* tier is started; the last report has k = total.
Thm_C28_TierReports ==
    /\ [](Len(tier_calls) <= Len(flight_levels))
    /\ [](tier_calls = IF progress_callback
                       THEN TierReports(Len(tier_calls)) ELSE <<>>)
    /\ []((progress_callback /\ TierRunning) => Len(tier_calls) = idx)
    /\ []((progress_callback /\ pc = "all_done") =>
            Len(tier_calls) = Len(flight_levels))
    /\ [][ReportStep]_vars

\* the same tier listed twice is reported twice
Wit_C28_TierReports ==
    /\ pc = "all_done"
    /\ progress_callback
    /\ Len(flight_levels) = 2
    /\ flight_levels[1] = flight_levels[2]
    /\ tier_calls = <<<<flight_levels[1], 1, 2>>, <<flight_levels[1], 2, 2>>>>

\* the step tells the listener: a cell has just been written and the
\* listener receives the number of cells written so far
ListenerStep ==
    calls' # calls =>
        /\ WritesOneCell
        /\ Len(calls') = Len(calls) + 1
        /\ calls'[Len(calls')][1] = current_point'
        /\ SubSeq(calls', 1, Len(calls)) = calls

\* C29: the reports a listener receives within one call of
\* compute_coverage_map have strictly increasing counts of processed cells,
\* all the same total N*M and the percentage 100 * count / total; a report
\* is made when that many cells have been written; the last report, and no
\* other, has count = total, after the last cell is written.
Thm_C29_ListenerReports ==
    /\ [](\A n \in 1..Len(calls) :
            /\ calls[n][2] = Cells
            /\ 1 <= calls[n][1] /\ calls[n][1] <= current_point
            /\ calls[n][3] = RMul(Rat(calls[n][1], Cells), R(100))
            /\ n > 1 => calls[n - 1][1] < calls[n][1])
    /\ []((pc = "cov_done" /\ point_progress_callback) =>
            /\ calls # <<>>
            /\ calls[Len(calls)][1] = Cells
            /\ calls[Len(calls)][3] = R(100)
            /\ Cardinality({n \in 1..Len(calls) : calls[n][1] = Cells}) = 1)
    /\ [](\A n \in 1..Len(calls) :
            calls[n][1] = Cells => current_point = Cells)
    /\ [][ListenerStep]_vars

\* a finished map of a hundred cells or more whose last two reports are
\* more than one cell apart
Wit_C29_ListenerReports ==
    /\ pc = "cov_done"
    /\ point_progress_callback
    /\ Len(calls) >= 2
    /\ calls[Len(calls)][1] = Cells
    /\ calls[Len(calls) - 1][1] < Cells - 1

-----------------------------------------------------------------------------
(* _create_grouped_polygons *)

\* excluded[a, b], the indices 0-based
Excluded(a, b) == ~mask[a + 1][b + 1]

\* visited[a, b], the indices 0-based
Visited(a, b) == visited[a + 1][b + 1]

\* faulty variant: the group grows over cells of an earlier group
GrowsRightOverVisited ==
    /\ end_j + 1 < Len(lons) - 1
    /\ Excluded(row_i, end_j + 1)

\* line 57: the condition of the horizontal loop
GrowsRight ==
    /\ end_j + 1 < Len(lons) - 1
    /\ Excluded(row_i, end_j + 1)
    /\ ~Visited(row_i, end_j + 1)

\* line 63: the condition of the vertical loop
GrowsDown == can_extend /\ end_i + 1 < Len(lats) - 1

\* lines 65-66: the next row is excluded and free in the columns of the group
RowFree ==
    /\ \A b \in start_j..end_j : Excluded(end_i + 1, b)
    /\ \A b \in start_j..end_j : ~Visited(end_i + 1, b)

\* the loops over range(len(lats) - 1) and range(len(lons) - 1) advance
NextCell ==
    IF col_j + 1 < Len(lons) - 1
    THEN col_j' = col_j + 1 /\ UNCHANGED row_i
    ELSE col_j' = 0 /\ row_i' = row_i + 1

\* lines 41-46: nothing is visited, nothing is emitted
GroupStart ==
    /\ pc = "group_start"
    /\ visited' = [a \in 1..Len(mask) |-> [b \in 1..Len(mask[a]) |-> FALSE]]
    /\ polygons' = <<>>
    /\ row_i' = 0
    /\ col_j' = 0
    /\ pc' = "group_loop"
    /\ UNCHANGED <<gridVars, queryVars, losArgs, losLocals, ret, covArgs,
                   coverage_map, current_point, calls, tierVars, convVars,
                   maskVars, start_j, end_j, end_i, can_extend>>

\* line 50: the cell is admissible or belongs to a group
GroupSkip ==
    /\ pc = "group_loop"
    /\ row_i < Len(lats) - 1
    /\ ~(Excluded(row_i, col_j) /\ ~Visited(row_i, col_j))
    /\ NextCell
    /\ UNCHANGED <<gridVars, queryVars, losArgs, losLocals, ret, covArgs,
                   coverage_map, current_point, calls, tierVars, convVars,
                   maskVars, groupVars, pc>>

\* lines 50-54: the cell starts a group
GroupFind ==
    /\ pc = "group_loop"
    /\ row_i < Len(lats) - 1
    /\ Excluded(row_i, col_j) /\ ~Visited(row_i, col_j)
    /\ start_j' = col_j
    /\ end_j' = col_j
    /\ pc' = "group_right"
    /\ UNCHANGED <<gridVars, queryVars, losArgs, losLocals, ret, covArgs,
                   covLocals, tierVars, convVars, maskVars, visited, end_i,
                   can_extend, polygons>>

\* lines 57-58: one iteration of the horizontal loop
GroupRight ==
    /\ pc = "group_right"
    /\ GrowsRight
    /\ end_j' = end_j + 1
    /\ UNCHANGED <<gridVars, queryVars, losArgs, losLocals, ret, covArgs,
                   covLocals, tierVars, convVars, maskVars, visited, start_j,
                   end_i, can_extend, polygons, pc>>

\* lines 61-62: the horizontal loop is left
GroupRightDone ==
    /\ pc = "group_right"
    /\ ~GrowsRight
    /\ end_i' = row_i
    /\ can_extend' = TRUE
    /\ pc' = "group_down"
    /\ UNCHANGED <<gridVars, queryVars, losArgs, losLocals, ret, covArgs,
                   covLocals, tierVars, convVars, maskVars, visited, start_j,
                   end_j, polygons>>

\* lines 63-69: one iteration of the vertical loop
GroupDown ==
    /\ pc = "group_down"
    /\ GrowsDown
    /\ IF RowFree
       THEN end_i' = end_i + 1 /\ UNCHANGED can_extend
       ELSE can_extend' = FALSE /\ UNCHANGED end_i
    /\ UNCHANGED <<gridVars, queryVars, losArgs, losLocals, ret, covArgs,
                   covLocals, tierVars, convVars, maskVars, visited, start_j,
                   end_j, polygons, pc>>

\* lines 72-91: the group is marked and its rectangle is emitted
GroupEmit ==
    /\ pc = "group_down"
    /\ ~GrowsDown
    /\ visited' = [a \in 1..Len(visited) |-> [b \in 1..Len(visited[a]) |->
                      IF /\ row_i <= a - 1 /\ a - 1 <= end_i
                         /\ start_j <= b - 1 /\ b - 1 <= end_j
                      THEN TRUE ELSE visited[a][b]]]
    /\ polygons' = Append(polygons, <<lats[row_i + 1], lats[end_i + 2],
                                      lons[start_j + 1], lons[end_j + 2]>>)
    /\ NextCell
    /\ pc' = "group_loop"
    /\ UNCHANGED <<gridVars, queryVars, losArgs, losLocals, ret, covArgs,
                   coverage_map, current_point, calls, tierVars, convVars,
                   maskVars, start_j, end_j, end_i, can_extend>>

\* line 91: every row is done
GroupReturn ==
    /\ pc = "group_loop"
    /\ row_i >= Len(lats) - 1
    /\ pc' = "group_done"
    /\ UNCHANGED <<gridVars, queryVars, losArgs, losLocals, ret, covArgs,
                   covLocals, tierVars, convVars, maskVars, groupVars>>

-----------------------------------------------------------------------------
(* Specification of one call of _create_grouped_polygons *)

\* number of latitude samples of the mask's grid
GroupLat == 3
\* number of longitude samples of the mask's grid
GroupLon == 4

\* the masks of n x m vertices: any values on the cells the loops visit, one
\* value on the last row and the last column
GroupMasks(n, m) ==
    { [a \in 1..n |-> [b \in 1..m |->
          IF a < n /\ b < m THEN inner[<<a, b>>] ELSE edge]] :
      inner \in [(1..(n - 1)) \X (1..(m - 1)) -> BOOLEAN],
      edge \in BOOLEAN }

InitGroup ==
    /\ lats = Axis(GroupLat, TRUE)
    /\ lons = Axis(GroupLon, FALSE)
    /\ Z = [i \in 1..GroupLat |-> [j \in 1..GroupLon |-> 0]]
    /\ q_lat = R(0) /\ q_lon = R(0) /\ z_out = None
    /\ LosIdle
    /\ CovIdle
    /\ TierIdle
    /\ ConvIdle
    /\ masks = <<>> /\ raised = "none"
    /\ mask \in GroupMasks(GroupLat, GroupLon)
    /\ GroupIdle
    /\ pc = "group_start"

NextGroup ==
    \/ GroupStart \/ GroupSkip \/ GroupFind
    \/ GroupRight \/ GroupRightDone
    \/ GroupDown \/ GroupEmit
    \/ GroupReturn

\* the call runs on without interruption
SpecGroup == InitGroup /\ [][NextGroup]_vars /\ WF_vars(NextGroup)

-----------------------------------------------------------------------------
(* Claims about _create_grouped_polygons *)

\* v lies between x and y
Between(v, x, y) == Min2(x, y) <= v /\ v <= Max2(x, y)

\* the grid cells (a, b), 0-based, that the rectangle covers: both latitudes
\* and both longitudes of the cell lie in the rectangle
CellsOf(rect) ==
    {c \in (0..(Len(lats) - 2)) \X (0..(Len(lons) - 2)) :
        /\ Between(lats[c[1] + 1], rect[1], rect[2])
        /\ Between(lats[c[1] + 2], rect[1], rect[2])
        /\ Between(lons[c[2] + 1], rect[3], rect[4])
        /\ Between(lons[c[2] + 2], rect[3], rect[4])}

\* the excluded cells with row index < N-1 and column index < M-1
ExcludedCells ==
    {c \in (0..(Len(lats) - 2)) \X (0..(Len(lons) - 2)) :
        ~mask[c[1] + 1][c[2] + 1]}

\* the rectangles emitted so far cover no admissible cell and no cell twice
NoOverlap ==
    /\ \A n \in 1..Len(polygons) :
        /\ CellsOf(polygons[n]) # {}
        /\ CellsOf(polygons[n]) \subseteq ExcludedCells
    /\ \A n, m \in 1..Len(polygons) :
        n # m => CellsOf(polygons[n]) \cap CellsOf(polygons[m]) = {}

\* the rectangles emitted cover every excluded cell
Complete ==
    UNION {CellsOf(polygons[n]) : n \in 1..Len(polygons)} = ExcludedCells

\* C30: _create_grouped_polygons terminates on every mask; the rectangles it
\* emits cover only excluded cells with row index < N-1 and column index <
\* M-1, are pairwise disjoint, and at the end cover every such cell.
Thm_C30_GroupedPolygons ==
    /\ [](pc # "group_start" => NoOverlap)
    /\ [](pc = "group_done" => Complete)
    /\ <>(pc = "group_done")

\* a finished call that emitted a rectangle of two rows and a rectangle next
\* to it, on a mask with an admissible cell and an excluded last row
Wit_C30_GroupedPolygons ==
    /\ pc = "group_done"
    /\ Len(polygons) >= 2
    /\ \E n \in 1..Len(polygons) :
        \E c \in CellsOf(polygons[n]) : <<c[1] + 1, c[2]>> \in CellsOf(polygons[n])
    /\ ExcludedCells # (0..(Len(lats) - 2)) \X (0..(Len(lons) - 2))
    /\ ~mask[Len(lats)][1]

====
